---- MODULE Spec2Model ----
(***************************************************************************)
(* Emotion-based music recommendation: the Spotify client (token lifecycle *)
(* and searchByEmotion in its three source variants) and the page          *)
(* application that drives it.                                             *)
(*                                                                         *)
(*   SpecSearch  one searchByEmotion call, any variant, any catalog answers *)
(*   SpecAuth    the token lifecycle across page loads                      *)
(*   Spec        one page session of MusicRecommendationApp                 *)
(*   SpecMoods   a page session in which the user moves between emotions    *)
(*   SpecEffects the emotion cards and the background effects               *)
(***************************************************************************)
EXTENDS Integers, Sequences, FiniteSets, Bags, TLC

VARIABLES
    now,              \* Date.now(), in milliseconds
    variant,          \* which source file provides SpotifyAPI
    accessToken,      \* SpotifyAPI.accessToken
    tokenExpiry,      \* SpotifyAPI.tokenExpiry
    codeVerifier,     \* SpotifyAPI.codeVerifier
    localStorage,     \* spotify_access_token, spotify_token_expiry, spotify_refresh_token
    sessionStorage,   \* spotify_code_verifier
    url,              \* window.location.search: the code and error parameters
    page,             \* "none" before the first load, "loaded", or "away" at the authorization endpoint
    authResult,       \* what handleAuthCallback returned on the last page load
    authLog,          \* what the last handler run did: token requests sent, instant, answer
    nextVerifier,     \* the next value crypto.getRandomValues yields for a verifier
    attempts,         \* the code_challenge of every authorization redirect so far
    loggedOut,        \* logout() ran and no token exchange succeeded since
    lastExchange,     \* instant and expires_in of the latest successful token exchange
    call,             \* a searchByEmotion call made directly on the client
    fetches,          \* the searchByEmotion calls handleEmotionSelection awaits (a bag)
    currentEmotion,   \* MusicRecommendationApp.currentEmotion
    currentPlaylist,  \* MusicRecommendationApp.currentPlaylist
    playlistCache,    \* MusicRecommendationApp.playlistCache
    timeout,          \* the timer of debounce(): the pending emotion, if any
    loading,          \* playlistLoading is shown
    errorMessage,     \* the text shown by showError, "" when hidden
    displayed,        \* the tracks shown in playlistContainer
    fetched,          \* per emotion: the list its latest completed search returned
    lastRequest,      \* the last handleEmotionSelection call: its emotion, and whether it
                      \* stopped unauthenticated, hit the cache or missed it
    discarded,        \* the raw records formatTrackResults dropped during the page session
    superseded,       \* the emotion whose pending debounce timer the last click replaced,
                      \* if it replaced one
    effectEmotion,    \* EmotionEffects.currentEmotion
    animationId,      \* EmotionEffects.animationId: the pending animation frame, if any
    currentlyPlayingTrack \* MusicRecommendationApp.currentlyPlayingTrack: a track id, if any

vars == <<now, variant, accessToken, tokenExpiry, codeVerifier, localStorage,
          sessionStorage, url, page, authResult, authLog, nextVerifier, attempts,
          loggedOut, lastExchange, call, fetches, currentEmotion, currentPlaylist, playlistCache,
          timeout, loading, errorMessage, displayed, fetched, lastRequest,
          discarded, superseded, effectEmotion, animationId,
                   currentlyPlayingTrack>>

authVars == <<accessToken, tokenExpiry, codeVerifier, localStorage, sessionStorage>>
pageVars == <<url, page, authResult, authLog, nextVerifier, attempts>>
histVars == <<loggedOut, lastExchange>>
appVars  == <<currentEmotion, currentPlaylist, playlistCache, timeout, loading,
              errorMessage, displayed, fetched, lastRequest,
              discarded, superseded, effectEmotion, animationId,
                   currentlyPlayingTrack>>

----------------------------------------------------------------------------
(* Bounds *)

MaxTicks    == 1     \* the clock advances at most this many times
MaxLifetime == 2     \* expires_in ranges over SafetyMargin .. SafetyMargin + MaxLifetime
NumTracks   == 3     \* identifiers the catalog can return
MaxResp     == 2     \* records in one catalog answer
MaxLimit    == 2     \* limit argument of a direct searchByEmotion call
NumMoods    == 1     \* emotions the user picks from
MaxFetches  == 1     \* searchByEmotion calls in flight at once in a page session
AppMaxResp  == 1     \* records in one catalog answer during a page session
AppNumTracks == 2    \* identifiers the catalog returns during a page session
MaxVerifiers == 3    \* PKCE verifiers generated
MaxAttempts == 2     \* redirects to the authorization endpoint
MaxMerged   == 3     \* tracks the ranked variant holds before its last answer
MaxFrames   == 4     \* animation frames drawn after the first one of an effect
NumSessionMoods == 2 \* emotions the user moves between in one page session

(* Program constants *)

SafetyMargin   == 60      \* seconds subtracted from expires_in
MsPerSecond    == 1000
NumLanguages   == 4       \* tamil, telugu, english, malayalam
ArtistLimit    == 8       \* records requested per artist query (Tamil-only variant)
AdditionalLimit == 5      \* records requested per additional query (ranked variant)
MaxArtists     == 3       \* artists.slice(0, 3) / popularTamilQueries.slice(0, 3)
ScoreCap       == 10
SearchLimit    == 20      \* searchByEmotion(emotion, 20) in handleEmotionSelection

----------------------------------------------------------------------------
(* Values *)

None    == <<>>                 \* null / absent key
Some(v) == <<v>>
Val(o)  == o[1]

Variants == {"language", "ranked", "tamilOnly"}

AllEmotions == <<"happy", "sad", "chill", "energetic", "romantic", "calm", "angry", "nostalgic">>
Moods == {AllEmotions[i] : i \in 1..NumMoods}

TrackIds == 1..NumTracks

RECURSIVE SeqsUpTo(_, _)
SeqsUpTo(S, n) ==
    IF n = 0 THEN {<<>>}
    ELSE LET shorter == SeqsUpTo(S, n - 1)
         IN  shorter \cup {Append(s, x) : s \in {t \in shorter : Len(t) = n - 1}, x \in S}

Failures  == {"network", "401", "api", "malformed"}
\* a catalog answer: a failure, or a list of raw records
Answers(maxLen) ==
    {[kind |-> k, items |-> <<>>] : k \in Failures}
    \cup {[kind |-> "ok", items |-> items] : items \in SeqsUpTo(TrackIds, maxLen)}

Responses == Answers(MaxResp)

IsFailure(resp) == resp.kind # "ok"

InSeq(s, x) == \E i \in 1..Len(s) : s[i] = x
Distinct(s) == \A i, j \in 1..Len(s) : i # j => s[i] # s[j]
Slice(s, n) == SubSeq(s, 1, IF n < Len(s) THEN n ELSE Len(s))
Min(a, b)   == IF a < b THEN a ELSE b
CeilDiv(a, b) == (a + b - 1) \div b

----------------------------------------------------------------------------
(* The catalog: what a raw record with a given identifier looks like.      *)
(* Words(id) is the set of indicator substrings contained in the track's   *)
(* lower-cased "name artist album" text.                                    *)

HasArt(id) == id \notin {3, 4}

\* the substrings getTamilScore looks for, and the script test as the last
ScoreIndicators ==
    <<"tamil", "anirudh", "ar rahman", "ilayaraja", "yuvan", "gv prakash",
      "hindi", "telugu", "malayalam", "tamil script">>

\* the identifiers from 100 on stand for one track per combination of
\* indicators: indicator i matches track 100 + n when bit i of n is set
Matches(id, i) == id >= 100 /\ ((id - 100) \div (2 ^ (i - 1))) % 2 = 1

IndicatorTrackIds == 100 .. (100 + 2 ^ Len(ScoreIndicators) - 1)

Words(id) ==
    CASE id = 1 -> {"tamil", "anirudh", "ar rahman"}
      [] id = 2 -> {}
      [] id = 3 -> {"tamil"}
      [] id = 4 -> {"telugu"}
      [] id >= 100 -> {ScoreIndicators[i] : i \in {j \in 1..(Len(ScoreIndicators) - 1) : Matches(id, j)}}
      [] OTHER  -> {"yuvan"}

NameInTamilScript(id)   == id = 5 \/ Matches(id, Len(ScoreIndicators))
ArtistInTamilScript(id) == FALSE

----------------------------------------------------------------------------
(* Token Manager: pure parts.  A is the record of the client's credential  *)
(* state: its two in-memory fields and the two storages.                    *)

Auth == [accessToken |-> accessToken, tokenExpiry |-> tokenExpiry,
         ls |-> localStorage, ss |-> sessionStorage]

SetAuth(A) ==
    /\ accessToken' = A.accessToken
    /\ tokenExpiry' = A.tokenExpiry
    /\ localStorage' = A.ls
    /\ sessionStorage' = A.ss

EmptyLocal   == [token |-> None, expiry |-> None, refresh |-> None]
EmptySession == [verifier |-> None]

logout(A) ==
    [accessToken |-> None, tokenExpiry |-> None,
     ls |-> EmptyLocal, ss |-> EmptySession]

\* mutant: isAuthenticated() without the expiry test
isAuthenticatedIgnoringExpiry(A, t) ==
    IF A.accessToken = None THEN [ret |-> FALSE, A |-> A]
    ELSE [ret |-> TRUE, A |-> A]

\* mutant: an expired credential is reported and kept
isAuthenticatedKeepsExpired(A, t) ==
    IF A.accessToken = None THEN [ret |-> FALSE, A |-> A]
    ELSE IF A.tokenExpiry # None /\ t > Val(A.tokenExpiry)
         THEN [ret |-> FALSE, A |-> A]
         ELSE [ret |-> TRUE, A |-> A]

\* isAuthenticated(): the value returned and the credential state it leaves.
isAuthenticated(A, t) ==
    IF A.accessToken = None THEN [ret |-> FALSE, A |-> A]
    ELSE IF A.tokenExpiry # None /\ t > Val(A.tokenExpiry)
         THEN [ret |-> FALSE, A |-> logout(A)]
         ELSE [ret |-> TRUE, A |-> A]

----------------------------------------------------------------------------
(* Token Manager: the handshake *)

\* generateCodeChallenge: SHA-256 of the verifier, base64url; one-way and
\* collision-free for the verifiers of a session
generateCodeChallenge(verifier) == <<"S256", verifier>>

NoParams == [code |-> None, error |-> None, description |-> None]

Neutral == [success |-> FALSE, error |-> None, errorDescription |-> None]

ErrorKinds == {"access_denied", "server_error", "temporarily_unavailable"}

getErrorMessage(error) ==
    CASE error = "unsupported_response_type" -> "OAuth configuration error."
      [] error = "access_denied"         -> "Authentication was cancelled or denied."
      [] error = "invalid_client"        -> "Invalid Client ID."
      [] error = "invalid_request"       -> "Invalid request."
      [] error = "server_error"          -> "Spotify server error."
      [] error = "token_exchange_failed" -> "Failed to exchange authorization code for token."
      [] error = "missing_code_verifier" -> "Session expired."
      [] error = "network_error"         -> "Network error."
      [] OTHER -> "Authentication error: " \o error

\* the token endpoint's answers: success with a lifetime in seconds and an
\* optional refresh token; an error status with or without a JSON error code,
\* or with an unreadable body; no answer at all
TokenAnswers ==
    {[kind |-> "ok", expiresIn |-> e, refresh |-> r, error |-> None]
        : e \in SafetyMargin..(SafetyMargin + MaxLifetime), r \in {None, Some("refresh")}}
    \cup {[kind |-> "notOk", expiresIn |-> 0, refresh |-> None, error |-> e]
        : e \in {None, Some("invalid_grant")}}
    \cup {[kind |-> k, expiresIn |-> 0, refresh |-> None, error |-> None]
        : k \in {"notOkUnreadable", "network"}}

\* mutant: the expiry stored without the safety margin
exchangeCodeForTokenNoMargin(A, t, code, ans) ==
    IF A.ss.verifier = None
    THEN [A |-> A, sent |-> None, tries |-> 0,
          result |-> [success |-> FALSE, error |-> Some("missing_code_verifier"),
                      errorDescription |-> Some("Code verifier not found.")]]
    ELSE LET request == Some([code |-> code, code_verifier |-> Val(A.ss.verifier)])
         IN  CASE ans.kind = "notOk" ->
                    [A |-> A, sent |-> request, tries |-> 1,
                     result |-> [success |-> FALSE,
                                 error |-> IF ans.error # None THEN ans.error
                                           ELSE Some("token_exchange_failed"),
                                 errorDescription |-> Some("Failed to exchange code for token.")]]
               [] ans.kind \in {"notOkUnreadable", "network"} ->
                    [A |-> A, sent |-> request, tries |-> 1,
                     result |-> [success |-> FALSE, error |-> Some("network_error"),
                                 errorDescription |-> Some("Network error during token exchange.")]]
               [] ans.kind = "ok" ->
                    LET expiry == t + ans.expiresIn * MsPerSecond
                    IN  [A |-> [A EXCEPT !.accessToken = Some("tok"),
                                         !.tokenExpiry = Some(expiry),
                                         !.ls = [token |-> Some("tok"),
                                                 expiry |-> Some(expiry),
                                                 refresh |-> IF ans.refresh # None
                                                             THEN ans.refresh ELSE @.refresh]],
                         sent |-> request, tries |-> 1,
                         result |-> [success |-> TRUE, error |-> None,
                                     errorDescription |-> None]]

\* mutant: the request is sent a second time when the first one fails
exchangeCodeForTokenRetries(A, t, code, ans) ==
    IF A.ss.verifier = None
    THEN [A |-> A, sent |-> None, tries |-> 0,
          result |-> [success |-> FALSE, error |-> Some("missing_code_verifier"),
                      errorDescription |-> Some("Code verifier not found.")]]
    ELSE LET request == Some([code |-> code, code_verifier |-> Val(A.ss.verifier)])
         IN  CASE ans.kind = "notOk" ->
                    [A |-> A, sent |-> request, tries |-> 1,
                     result |-> [success |-> FALSE,
                                 error |-> IF ans.error # None THEN ans.error
                                           ELSE Some("token_exchange_failed"),
                                 errorDescription |-> Some("Failed to exchange code for token.")]]
               [] ans.kind \in {"notOkUnreadable", "network"} ->
                    [A |-> A, sent |-> request, tries |-> 2,
                     result |-> [success |-> FALSE, error |-> Some("network_error"),
                                 errorDescription |-> Some("Network error during token exchange.")]]
               [] ans.kind = "ok" ->
                    LET expiry == t + (ans.expiresIn - SafetyMargin) * MsPerSecond
                    IN  [A |-> [A EXCEPT !.accessToken = Some("tok"),
                                         !.tokenExpiry = Some(expiry),
                                         !.ls = [token |-> Some("tok"),
                                                 expiry |-> Some(expiry),
                                                 refresh |-> IF ans.refresh # None
                                                             THEN ans.refresh ELSE @.refresh]],
                         sent |-> request, tries |-> 1,
                         result |-> [success |-> TRUE, error |-> None,
                                     errorDescription |-> None]]

\* mutant: the verifier is required only while a token is held
exchangeCodeForTokenAnyVerifier(A, t, code, ans) ==
    IF A.ss.verifier = None /\ A.accessToken # None
    THEN [A |-> A, sent |-> None, tries |-> 0,
          result |-> [success |-> FALSE, error |-> Some("missing_code_verifier"),
                      errorDescription |-> Some("Code verifier not found.")]]
    ELSE LET request == Some([code |-> code, code_verifier |-> IF A.ss.verifier = None THEN 0 ELSE Val(A.ss.verifier)])
         IN  CASE ans.kind = "notOk" ->
                    [A |-> A, sent |-> request, tries |-> 1,
                     result |-> [success |-> FALSE,
                                 error |-> IF ans.error # None THEN ans.error
                                           ELSE Some("token_exchange_failed"),
                                 errorDescription |-> Some("Failed to exchange code for token.")]]
               [] ans.kind \in {"notOkUnreadable", "network"} ->
                    [A |-> A, sent |-> request, tries |-> 1,
                     result |-> [success |-> FALSE, error |-> Some("network_error"),
                                 errorDescription |-> Some("Network error during token exchange.")]]
               [] ans.kind = "ok" ->
                    LET expiry == t + (ans.expiresIn - SafetyMargin) * MsPerSecond
                    IN  [A |-> [A EXCEPT !.accessToken = Some("tok"),
                                         !.tokenExpiry = Some(expiry),
                                         !.ls = [token |-> Some("tok"),
                                                 expiry |-> Some(expiry),
                                                 refresh |-> IF ans.refresh # None
                                                             THEN ans.refresh ELSE @.refresh]],
                         sent |-> request, tries |-> 1,
                         result |-> [success |-> TRUE, error |-> None,
                                     errorDescription |-> None]]

\* exchangeCodeForToken(code) at instant t when the endpoint answers ans
exchangeCodeForToken(A, t, code, ans) ==
    IF A.ss.verifier = None
    THEN [A |-> A, sent |-> None, tries |-> 0,
          result |-> [success |-> FALSE, error |-> Some("missing_code_verifier"),
                      errorDescription |-> Some("Code verifier not found.")]]
    ELSE LET request == Some([code |-> code, code_verifier |-> Val(A.ss.verifier)])
         IN  CASE ans.kind = "notOk" ->
                    [A |-> A, sent |-> request, tries |-> 1,
                     result |-> [success |-> FALSE,
                                 error |-> IF ans.error # None THEN ans.error
                                           ELSE Some("token_exchange_failed"),
                                 errorDescription |-> Some("Failed to exchange code for token.")]]
               [] ans.kind \in {"notOkUnreadable", "network"} ->
                    [A |-> A, sent |-> request, tries |-> 1,
                     result |-> [success |-> FALSE, error |-> Some("network_error"),
                                 errorDescription |-> Some("Network error during token exchange.")]]
               [] ans.kind = "ok" ->
                    LET expiry == t + (ans.expiresIn - SafetyMargin) * MsPerSecond
                    IN  [A |-> [A EXCEPT !.accessToken = Some("tok"),
                                         !.tokenExpiry = Some(expiry),
                                         !.ls = [token |-> Some("tok"),
                                                 expiry |-> Some(expiry),
                                                 refresh |-> IF ans.refresh # None
                                                             THEN ans.refresh ELSE @.refresh]],
                         sent |-> request, tries |-> 1,
                         result |-> [success |-> TRUE, error |-> None,
                                     errorDescription |-> None]]

\* mutant: the error branch without history.replaceState
handleAuthCallbackKeepsQuery(A, u, t, ans) ==
    IF u.error # None
    THEN [A |-> A, url |-> u, sent |-> None, tries |-> 0,
          result |-> [success |-> FALSE, error |-> u.error,
                      errorDescription |-> IF u.description # None THEN u.description
                                           ELSE Some(getErrorMessage(Val(u.error)))]]
    ELSE IF u.code # None
    THEN LET x == exchangeCodeForToken(A, t, Val(u.code), ans)
         IN  IF x.result.success
             THEN [A |-> [x.A EXCEPT !.ss = EmptySession], url |-> NoParams,
                   sent |-> x.sent, tries |-> x.tries, result |-> [success |-> TRUE, error |-> None,
                                                errorDescription |-> None]]
             ELSE [A |-> x.A, url |-> u, sent |-> x.sent, tries |-> x.tries, result |-> x.result]
    ELSE [A |-> A, url |-> u, sent |-> None, tries |-> 0, result |-> Neutral]

\* mutant: the verifier is discarded after a failed exchange too
handleAuthCallbackDropsVerifier(A, u, t, ans) ==
    IF u.error # None
    THEN [A |-> A, url |-> NoParams, sent |-> None, tries |-> 0,
          result |-> [success |-> FALSE, error |-> u.error,
                      errorDescription |-> IF u.description # None THEN u.description
                                           ELSE Some(getErrorMessage(Val(u.error)))]]
    ELSE IF u.code # None
    THEN LET x == exchangeCodeForToken(A, t, Val(u.code), ans)
         IN  IF x.result.success
             THEN [A |-> [x.A EXCEPT !.ss = EmptySession], url |-> NoParams,
                   sent |-> x.sent, tries |-> x.tries, result |-> [success |-> TRUE, error |-> None,
                                                errorDescription |-> None]]
             ELSE [A |-> [x.A EXCEPT !.ss = EmptySession], url |-> u, sent |-> x.sent, tries |-> x.tries,
                   result |-> x.result]
    ELSE [A |-> A, url |-> u, sent |-> None, tries |-> 0, result |-> Neutral]

\* mutant: a URL without parameters is reported as an error
handleAuthCallbackNoCodeError(A, u, t, ans) ==
    IF u.error # None
    THEN [A |-> A, url |-> NoParams, sent |-> None, tries |-> 0,
          result |-> [success |-> FALSE, error |-> u.error,
                      errorDescription |-> IF u.description # None THEN u.description
                                           ELSE Some(getErrorMessage(Val(u.error)))]]
    ELSE IF u.code # None
    THEN LET x == exchangeCodeForToken(A, t, Val(u.code), ans)
         IN  IF x.result.success
             THEN [A |-> [x.A EXCEPT !.ss = EmptySession], url |-> NoParams,
                   sent |-> x.sent, tries |-> x.tries, result |-> [success |-> TRUE, error |-> None,
                                                errorDescription |-> None]]
             ELSE [A |-> x.A, url |-> u, sent |-> x.sent, tries |-> x.tries, result |-> x.result]
    ELSE [A |-> A, url |-> u, sent |-> None, tries |-> 0,
          result |-> [Neutral EXCEPT !.error = Some("missing_code")]]

\* handleAuthCallback() on the URL parameters u at instant t
handleAuthCallback(A, u, t, ans) ==
    IF u.error # None
    THEN [A |-> A, url |-> NoParams, sent |-> None, tries |-> 0,
          result |-> [success |-> FALSE, error |-> u.error,
                      errorDescription |-> IF u.description # None THEN u.description
                                           ELSE Some(getErrorMessage(Val(u.error)))]]
    ELSE IF u.code # None
    THEN LET x == exchangeCodeForToken(A, t, Val(u.code), ans)
         IN  IF x.result.success
             THEN [A |-> [x.A EXCEPT !.ss = EmptySession], url |-> NoParams,
                   sent |-> x.sent, tries |-> x.tries, result |-> [success |-> TRUE, error |-> None,
                                                errorDescription |-> None]]
             ELSE [A |-> x.A, url |-> u, sent |-> x.sent, tries |-> x.tries, result |-> x.result]
    ELSE [A |-> A, url |-> u, sent |-> None, tries |-> 0, result |-> Neutral]

\* mutant: the constructor keeps a generated verifier in memory only
ConstructorInMemoryOnly(A, fresh) ==
    LET verifier == IF A.ss.verifier # None THEN A.ss.verifier ELSE Some(fresh)
    IN  [A |-> [A EXCEPT !.accessToken = A.ls.token,
                         !.tokenExpiry = A.ls.expiry],
         codeVerifier |-> verifier,
         generated |-> A.ss.verifier = None]

\* new SpotifyAPI(): the PKCE verifier and the token fields
Constructor(A, fresh) ==
    LET verifier == IF A.ss.verifier # None THEN A.ss.verifier ELSE Some(fresh)
    IN  [A |-> [A EXCEPT !.ss = [verifier |-> verifier],
                         !.accessToken = A.ls.token,
                         !.tokenExpiry = A.ls.expiry],
         codeVerifier |-> verifier,
         generated |-> A.ss.verifier = None]

Snapshot(A, u) == [A |-> A, url |-> u]

NoAuthLog == [ran |-> FALSE, at |-> 0, sent |-> None, tries |-> 0, answer |-> "none", expiresIn |-> 0,
              before |-> None, after |-> None]

\* logout() ran between credential states A and B
NoteLogout(A, B) ==
    loggedOut' = (loggedOut \/ (A.accessToken # None /\ B.accessToken = None))

----------------------------------------------------------------------------
(* Recommendation Fetcher: pure parts.  A track is represented by its      *)
(* identifier; its other attributes are those of the catalog record.       *)

\* mutant: the mapping without the albumArt filter
formatTrackResultsNoFilter(items) == items

\* tracks.items.map(...).filter(track => track.albumArt)
formatTrackResults(items) == SelectSeq(items, HasArt)

StrongIndicators ==
    {"tamil", "anirudh", "ar rahman", "ilayaraja", "yuvan", "gv prakash",
     "dhanush", "sundar c", "sundar.c", "karthik", "shreya ghoshal",
     "k.s.chitra", "spb", "t.m.s", "tms", "s.janaki", "minmini"}

MediumIndicators ==
    {"kollywood", "tamil movie", "tamil film", "south indian",
     "indian tamil", "tamil hit", "tamil song"}

isTamilSong(id) ==
    \/ Words(id) \cap StrongIndicators # {}
    \/ NameInTamilScript(id) \/ ArtistInTamilScript(id)
    \/ Words(id) \cap MediumIndicators # {}

Points(id, w, p) == IF w \in Words(id) THEN p ELSE 0

\* mutant: the score returned without Math.min(score, 10)
getTamilScoreUncapped(id) ==
    Points(id, "tamil", 5) + Points(id, "anirudh", 4)
      + Points(id, "ar rahman", 4) + Points(id, "ilayaraja", 4)
      + Points(id, "yuvan", 3) + Points(id, "gv prakash", 3)
      + Points(id, "hindi", 2) + Points(id, "telugu", 2)
      + Points(id, "malayalam", 2)
      + (IF NameInTamilScript(id) THEN 3 ELSE 0)

getTamilScore(id) ==
    Min(Points(id, "tamil", 5) + Points(id, "anirudh", 4)
          + Points(id, "ar rahman", 4) + Points(id, "ilayaraja", 4)
          + Points(id, "yuvan", 3) + Points(id, "gv prakash", 3)
          + Points(id, "hindi", 2) + Points(id, "telugu", 2)
          + Points(id, "malayalam", 2)
          + (IF NameInTamilScript(id) THEN 3 ELSE 0),
        ScoreCap)

\* mutant: the fold without the seenTrackIds test
RECURSIVE AddUnseenNoDedup(_, _, _)
AddUnseenNoDedup(f, tracks, tamilOnly) ==
    IF tracks = <<>> THEN f
    ELSE LET t == Head(tracks)
             g == IF (tamilOnly => isTamilSong(t)) /\ Len(f.allTracks) < f.limit
                  THEN [f EXCEPT !.seen = @ \cup {t}, !.allTracks = Append(@, t)]
                  ELSE f
         IN  AddUnseenNoDedup(g, Tail(tracks), tamilOnly)

\* mutant: the fold stops one track short of the limit
RECURSIVE AddUnseenOffByOne(_, _, _)
AddUnseenOffByOne(f, tracks, tamilOnly) ==
    IF tracks = <<>> THEN f
    ELSE LET t == Head(tracks)
             g == IF (tamilOnly => isTamilSong(t)) /\ t \notin f.seen /\ Len(f.allTracks) < f.limit - 1
                  THEN [f EXCEPT !.seen = @ \cup {t}, !.allTracks = Append(@, t)]
                  ELSE f
         IN  AddUnseenOffByOne(g, Tail(tracks), tamilOnly)

\* mutant: a track seen before is moved to the end of the list
RECURSIVE AddUnseenLastWins(_, _, _)
AddUnseenLastWins(f, tracks, tamilOnly) ==
    IF tracks = <<>> THEN f
    ELSE LET t == Head(tracks)
             g == IF (tamilOnly => isTamilSong(t))
                     /\ (t \in f.seen \/ Len(f.allTracks) < f.limit)
                  THEN [f EXCEPT !.seen = @ \cup {t},
                                 !.allTracks = Append(SelectSeq(@, LAMBDA x : x # t), t)]
                  ELSE f
         IN  AddUnseenLastWins(g, Tail(tracks), tamilOnly)

\* for (const track of tracks) if (!seen.has(track.id) && allTracks.length < limit) ...
RECURSIVE AddUnseen(_, _, _)
AddUnseen(f, tracks, tamilOnly) ==
    IF tracks = <<>> THEN f
    ELSE LET t == Head(tracks)
             g == IF (tamilOnly => isTamilSong(t)) /\ t \notin f.seen /\ Len(f.allTracks) < f.limit
                  THEN [f EXCEPT !.seen = @ \cup {t}, !.allTracks = Append(@, t)]
                  ELSE f
         IN  AddUnseen(g, Tail(tracks), tamilOnly)

\* allTracks.filter(track => { if (seenIds.has(track.id)) return false; seenIds.add(track.id); return true; })
RECURSIVE UniqueTracks(_, _)
UniqueTracks(tracks, seenIds) ==
    IF tracks = <<>> THEN <<>>
    ELSE IF Head(tracks) \in seenIds THEN UniqueTracks(Tail(tracks), seenIds)
    ELSE <<Head(tracks)>> \o UniqueTracks(Tail(tracks), seenIds \cup {Head(tracks)})

\* mutant: a sort that puts a track before the earlier tracks of its score
RECURSIVE InsertByScoreUnstable(_, _)
InsertByScoreUnstable(sorted, t) ==
    IF sorted = <<>> THEN <<t>>
    ELSE IF getTamilScore(Head(sorted)) > getTamilScore(t)
         THEN <<Head(sorted)>> \o InsertByScoreUnstable(Tail(sorted), t)
         ELSE <<t>> \o sorted

\* Array.prototype.sort with (a, b) => score(b) - score(a): stable, highest first
RECURSIVE InsertByScore(_, _)
InsertByScore(sorted, t) ==
    IF sorted = <<>> THEN <<t>>
    ELSE IF getTamilScore(Head(sorted)) >= getTamilScore(t)
         THEN <<Head(sorted)>> \o InsertByScore(Tail(sorted), t)
         ELSE <<t>> \o sorted

RECURSIVE SortByScore(_)
SortByScore(tracks) ==
    IF tracks = <<>> THEN <<>>
    ELSE InsertByScore(SortByScore(SubSeq(tracks, 1, Len(tracks) - 1)), tracks[Len(tracks)])

----------------------------------------------------------------------------
(* searchByEmotion, one record per call.  A call runs from one await to the *)
(* next: it stops either with a catalog request in flight (pc = "wait",    *)
(* step = the query that was sent) or finished (pc = "done").               *)

IdleFetch ==
    [pc |-> "idle", emotion |-> "", limit |-> 0, step |-> 0,
     allTracks |-> <<>>, seen |-> {}, sent |-> <<>>,
     outcome |-> "none", result |-> <<>>,
     authAtCall |-> FALSE, got401 |-> FALSE, okSteps |-> {}, failSteps |-> {},
     dupOffered |-> FALSE, oversized |-> FALSE, offered |-> {}, merged |-> <<>>]

\* the queries a call may issue, in order; the last one of the language and
\* Tamil-only variants is the broad query
NumSteps(v) ==
    CASE v = "language"  -> NumLanguages + 1
      [] v = "ranked"    -> 1 + MaxArtists
      [] v = "tamilOnly" -> 1 + MaxArtists + 1

QueryName(v, k) ==
    CASE v = "language" ->
           IF k <= NumLanguages THEN <<"tamil", "telugu", "english", "malayalam">>[k]
           ELSE "general"
      [] v = "ranked" -> IF k = 1 THEN "base" ELSE "popular"
      [] v = "tamilOnly" ->
           IF k = 1 THEN "emotion" ELSE IF k <= 1 + MaxArtists THEN "artist" ELSE "broad"

\* emotionQueries[emotion] || emotion, with the language prefix removed
emotionKeywords(e) ==
    CASE e = "happy"     -> "upbeat pop dance party"
      [] e = "sad"       -> "melancholic indie acoustic"
      [] e = "chill"     -> "lo-fi hip hop ambient"
      [] e = "energetic" -> "high energy workout rock"
      [] e = "romantic"  -> "romantic love ballad"
      [] e = "calm"      -> "peaceful meditation yoga"
      [] e = "angry"     -> "aggressive metal rock"
      [] e = "nostalgic" -> "vintage retro classic"
      [] OTHER           -> e

\* the Tamil-only variant's emotionQueries[emotion] || `tamil ${emotion}`,
\* after the word tamil
tamilKeywords(e) ==
    CASE e = "happy"     -> "happy joyful celebration party dance"
      [] e = "sad"       -> "sad emotional heartbreak tears lonely"
      [] e = "chill"     -> "chill relaxed calm peaceful mellow"
      [] e = "energetic" -> "energetic workout pump up motivation"
      [] e = "romantic"  -> "love romantic couple wedding"
      [] e = "calm"      -> "meditation peaceful relaxation yoga"
      [] e = "angry"     -> "angry frustration rage intense"
      [] e = "nostalgic" -> "old songs classic vintage memories"
      [] OTHER           -> e

popularTamilQueries == <<"anirudh ravichander", "ar rahman", "ilayaraja">>

\* emotionArtists[emotion].slice(0, 3)
emotionArtists(e) ==
    CASE e = "happy"     -> <<"anirudh ravichander", "gv prakash", "sundar c">>
      [] e \in {"sad", "romantic", "calm"} -> <<"ar rahman", "ilayaraja", "yuvan shankar raja">>
      [] e = "chill"     -> <<"anirudh ravichander", "gv prakash", "yuvan shankar raja">>
      [] e \in {"energetic", "angry"} -> <<"anirudh ravichander", "gv prakash", "dhanush">>
      [] e = "nostalgic" -> <<"ilayaraja", "ar rahman", "sundar c">>
      [] OTHER           -> <<"anirudh ravichander", "ar rahman", "ilayaraja">>

\* emotion.split(' ')[1], as template text: the emotions have one word only
SecondWord(e) == "undefined"

\* the q= parameter of query k for emotion e: its words, joined by spaces
QueryText(v, k, e) ==
    CASE v = "language" ->
           IF k <= NumLanguages /\ QueryName(v, k) # "english"
           THEN <<QueryName(v, k), emotionKeywords(e)>>
           ELSE <<emotionKeywords(e)>>
      [] v = "ranked" ->
           IF k = 1 THEN <<"tamil", emotionKeywords(e)>>
           ELSE <<popularTamilQueries[k - 1], SecondWord(e)>>
      [] v = "tamilOnly" ->
           IF k = 1 THEN <<"tamil", tamilKeywords(e)>>
           ELSE IF k <= 1 + MaxArtists THEN <<emotionArtists(e)[k - 1], "tamil">>
           ELSE <<"tamil", e, "songs">>

\* mutant: every planned query of the language variant asks for limit records
RequestedWholeLimit(v, k, f) ==
    CASE v = "language" ->
           IF k <= NumLanguages THEN f.limit
           ELSE (f.limit - Len(f.allTracks)) * 2
      [] v = "ranked" -> IF k = 1 THEN f.limit ELSE AdditionalLimit
      [] v = "tamilOnly" ->
           IF k = 1 THEN CeilDiv(f.limit * 3, 5)
           ELSE IF k <= 1 + MaxArtists THEN ArtistLimit
           ELSE (f.limit - Len(f.allTracks)) * 2

\* mutant: the fallback query asks for the shortfall itself, not twice it
RequestedShortfall(v, k, f) ==
    CASE v = "language" ->
           IF k <= NumLanguages THEN CeilDiv(f.limit, NumLanguages)
           ELSE f.limit - Len(f.allTracks)
      [] v = "ranked" -> IF k = 1 THEN f.limit ELSE AdditionalLimit
      [] v = "tamilOnly" ->
           IF k = 1 THEN CeilDiv(f.limit * 3, 5)
           ELSE IF k <= 1 + MaxArtists THEN ArtistLimit
           ELSE f.limit - Len(f.allTracks)

\* the limit= parameter of query k
Requested(v, k, f) ==
    CASE v = "language" ->
           IF k <= NumLanguages THEN CeilDiv(f.limit, NumLanguages)
           ELSE (f.limit - Len(f.allTracks)) * 2
      [] v = "ranked" -> IF k = 1 THEN f.limit ELSE AdditionalLimit
      [] v = "tamilOnly" ->
           IF k = 1 THEN CeilDiv(f.limit * 3, 5)
           ELSE IF k <= 1 + MaxArtists THEN ArtistLimit
           ELSE (f.limit - Len(f.allTracks)) * 2

\* query k is not issued: the loop's break, or the broad query's condition
\* mutant: the loops go on until the accumulator holds more than limit tracks
SkipsBeyondLimit(v, k, f) ==
    CASE v = "language"  -> Len(f.allTracks) > f.limit
      [] v = "ranked"    -> FALSE
      [] v = "tamilOnly" -> k > 1 /\ Len(f.allTracks) > f.limit

Skips(v, k, f) ==
    CASE v = "language"  -> Len(f.allTracks) >= f.limit
      [] v = "ranked"    -> FALSE
      [] v = "tamilOnly" -> k > 1 /\ Len(f.allTracks) >= f.limit

\* query k sits inside an inner try/catch that swallows its error
Guarded(v, k) ==
    CASE v = "language"  -> TRUE
      [] v = "ranked"    -> k > 1
      [] v = "tamilOnly" -> k > 1

\* mutant: the Tamil-only fold without the isTamilSong test
MergeUnfiltered(v, f, items) ==
    CASE v = "language"  -> AddUnseen(f, formatTrackResults(items), FALSE)
      [] v = "ranked"    -> [f EXCEPT !.allTracks = @ \o formatTrackResults(items)]
      [] v = "tamilOnly" -> AddUnseen(f, formatTrackResults(items), FALSE)

\* fold the formatted answer of a query into the accumulator
Merge(v, f, items) ==
    CASE v = "language"  -> AddUnseen(f, formatTrackResults(items), FALSE)
      [] v = "ranked"    -> [f EXCEPT !.allTracks = @ \o formatTrackResults(items)]
      [] v = "tamilOnly" -> AddUnseen(f, formatTrackResults(items), TRUE)

\* mutant: the return statement without slice(0, limit)
ReturnedUnsliced(v, f) ==
    CASE v = "language"  -> f.allTracks
      [] v = "ranked"    -> SortByScore(UniqueTracks(f.allTracks, {}))
      [] v = "tamilOnly" -> f.allTracks

\* the return statement
Returned(v, f) ==
    CASE v = "language"  -> Slice(f.allTracks, f.limit)
      [] v = "ranked"    -> Slice(SortByScore(UniqueTracks(f.allTracks, {})), f.limit)
      [] v = "tamilOnly" -> f.allTracks

\* the call returns: its locals (allTracks, seenTrackIds) go out of scope;
\* bookkeeping for the properties: the uniqueTracks the ranked variant sorted
Finish(v, f) ==
    [f EXCEPT !.pc = "done", !.outcome = "ok", !.result = Returned(v, f),
              !.merged = IF v = "ranked" THEN UniqueTracks(f.allTracks, {}) ELSE <<>>,
              !.allTracks = <<>>, !.seen = {}]

ErrorOf(resp) ==
    CASE resp.kind = "network"   -> "NetworkError"
      [] resp.kind = "401"       -> "SessionExpired"
      [] resp.kind = "api"       -> "ApiError"
      [] resp.kind = "malformed" -> "TypeError"

RECURSIVE Advance(_, _, _, _, _), Throw(_, _, _, _, _, _)

\* apiRequest for query k threw err
Throw(v, f, A, t, k, err) ==
    LET g == [f EXCEPT !.failSteps = @ \cup {k}]
    IN  IF Guarded(v, k) THEN Advance(v, g, A, t, k + 1)
        ELSE [f |-> [g EXCEPT !.pc = "done", !.outcome = err,
                              !.allTracks = <<>>, !.seen = {}],
              A |-> A]

\* run from query k on, up to the next request sent or the return
Advance(v, f, A, t, k) ==
    IF k > NumSteps(v) THEN [f |-> Finish(v, f), A |-> A]
    ELSE IF Skips(v, k, f) THEN Advance(v, f, A, t, k + 1)
    ELSE LET chk == isAuthenticated(A, t)
         IN  IF chk.ret
             THEN [f |-> [f EXCEPT !.pc = "wait", !.step = k,
                                   !.sent = Append(@, [q |-> QueryName(v, k),
                                                       text |-> QueryText(v, k, f.emotion),
                                                       n |-> Requested(v, k, f)])],
                   A |-> chk.A]
             ELSE Throw(v, f, chk.A, t, k, "NotAuthenticated")

\* bookkeeping for the properties: query f.step succeeded; the raw records
\* its answer carried; whether it repeated an identifier, or carried more
\* records than were requested
Noted(f, items) ==
    LET tracks == formatTrackResults(items)
    IN  [f EXCEPT !.okSteps = @ \cup {f.step},
                  !.offered = @ \cup {items[i] : i \in 1..Len(items)},
                  !.dupOffered = @ \/ ~Distinct(tracks)
                                   \/ \E i \in 1..Len(tracks) : InSeq(f.allTracks, tracks[i]),
                  !.oversized = @ \/ (f.sent # <<>> /\ Len(items) > f.sent[Len(f.sent)].n)]

\* the answer to the request in flight arrives
Respond(v, f, A, t, resp) ==
    IF resp.kind = "401"
    THEN Throw(v, [f EXCEPT !.got401 = TRUE], logout(A), t, f.step, ErrorOf(resp))
    ELSE IF IsFailure(resp) THEN Throw(v, f, A, t, f.step, ErrorOf(resp))
    ELSE Advance(v, Merge(v, Noted(f, resp.items), resp.items), A, t, f.step + 1)

----------------------------------------------------------------------------
(* Actions shared by the specifications *)

Tick ==
    /\ now < MaxTicks * MsPerSecond
    /\ now' = now + MsPerSecond
    /\ UNCHANGED <<variant, authVars, pageVars, histVars, call, fetches, appVars>>

\* searchByEmotion(emotion, limit) is called
SearchCall(emotion, limit) ==
    /\ call.pc = "idle"
    /\ LET f0 == [IdleFetch EXCEPT !.emotion = emotion, !.limit = limit,
                                   !.authAtCall = isAuthenticated(Auth, now).ret]
       IN  \E r \in {Advance(variant, f0, Auth, now, 1)} :
               /\ call' = r.f
               /\ SetAuth(r.A)
               /\ NoteLogout(Auth, r.A)
    /\ UNCHANGED <<now, variant, codeVerifier, pageVars, lastExchange, fetches, appVars>>

\* the catalog answers the request of the call
CatalogAnswer(resp) ==
    /\ call.pc = "wait"
    /\ \E r \in {Respond(variant, call, Auth, now, resp)} :
           /\ call' = r.f
           /\ SetAuth(r.A)
           /\ NoteLogout(Auth, r.A)
    /\ UNCHANGED <<now, variant, codeVerifier, pageVars, lastExchange, fetches, appVars>>

----------------------------------------------------------------------------
(* SpecSearch: one direct call of searchByEmotion on a constructed client  *)

\* a credential as a successful exchange stores it, or none
StoredCredentials ==
    {EmptyLocal} \cup
    {[token |-> Some("tok"), expiry |-> Some(t), refresh |-> None]
        : t \in {0, MaxTicks * MsPerSecond}}

NoRequest == [emotion |-> "", kind |-> "none"]

AppInit ==
    /\ currentEmotion = None
    /\ currentPlaylist = <<>>
    /\ playlistCache = [m \in {} |-> <<>>]
    /\ timeout = None
    /\ loading = FALSE
    /\ errorMessage = ""
    /\ displayed = <<>>
    /\ fetched = [m \in {} |-> <<>>]
    /\ lastRequest = NoRequest
    /\ discarded = {}
    /\ superseded = None
    /\ effectEmotion = None
    /\ animationId = None
    /\ currentlyPlayingTrack = None

InitSearch ==
    /\ now = 0
    /\ variant \in Variants
    /\ localStorage \in StoredCredentials
    /\ accessToken = localStorage.token
    /\ tokenExpiry = localStorage.expiry
    /\ codeVerifier = Some(1)
    /\ sessionStorage = [verifier |-> Some(1)]
    /\ url = NoParams
    /\ page = "loaded"
    /\ authResult = Neutral
    /\ authLog = NoAuthLog
    /\ nextVerifier = 2
    /\ attempts = <<>>
    /\ loggedOut = FALSE
    /\ lastExchange = None
    /\ call = IdleFetch
    /\ fetches = EmptyBag
    /\ AppInit

\* the catalog's answers are arbitrary whatever the emotion asked for
DirectCall == \E limit \in 0..MaxLimit : SearchCall(AllEmotions[1], limit)

DirectAnswer == \E resp \in Responses : CatalogAnswer(resp)

\* time passes; a call reads the clock only in the expiry test of
\* isAuthenticated(), so only the passing of a stored expiry is of interest
Expire ==
    /\ tokenExpiry # None
    /\ now <= Val(tokenExpiry)
    /\ Val(tokenExpiry) < MaxTicks * MsPerSecond
    /\ Tick

NextSearch == DirectCall \/ DirectAnswer \/ Expire

SpecSearch == InitSearch /\ [][NextSearch]_vars

\* the call has returned or thrown
Done == call.pc = "done"

----------------------------------------------------------------------------
(* Properties of searchByEmotion, checked under SpecSearch *)

ReturnedOk == Done /\ call.outcome = "ok"

CredentialCleared ==
    /\ accessToken = None /\ tokenExpiry = None
    /\ localStorage.token = None /\ localStorage.expiry = None

----------------------------------------------------------------------------
(* SpecRank: the ranked searchByEmotion from its last request on, over a    *)
(* catalog with tracks of equal score                                       *)

\* identifiers of artwork-bearing tracks, two of them with the same score
RankedTrackIds == {id \in 1..(NumTracks + 4) : HasArt(id)}

\* the requests of a ranked call, all sent
RankedSent(limit) ==
    [k \in 1..NumSteps("ranked") |->
        [q |-> QueryName("ranked", k), text |-> QueryText("ranked", k, AllEmotions[1]),
         n |-> Requested("ranked", k, [IdleFetch EXCEPT !.limit = limit])]]

\* the call awaits the answer to its last request: the first three were
\* answered, with tracks in any order and number up to MaxMerged
InitRank ==
    /\ now = 0
    /\ variant = "ranked"
    /\ localStorage \in StoredCredentials \ {EmptyLocal}
    /\ accessToken = localStorage.token
    /\ tokenExpiry = localStorage.expiry
    /\ codeVerifier = Some(1)
    /\ sessionStorage = [verifier |-> Some(1)]
    /\ url = NoParams
    /\ page = "loaded"
    /\ authResult = Neutral
    /\ authLog = NoAuthLog
    /\ nextVerifier = 2
    /\ attempts = <<>>
    /\ loggedOut = FALSE
    /\ lastExchange = None
    /\ fetches = EmptyBag
    /\ AppInit
    /\ \E limit \in 0..MaxMerged, tracks \in SeqsUpTo(RankedTrackIds, MaxMerged) :
           call = [IdleFetch EXCEPT !.pc = "wait", !.emotion = AllEmotions[1],
                                    !.limit = limit, !.step = NumSteps("ranked"),
                                    !.allTracks = tracks, !.sent = RankedSent(limit),
                                    !.authAtCall = TRUE,
                                    !.okSteps = 1..(NumSteps("ranked") - 1),
                                    !.dupOffered = ~Distinct(tracks),
                                    !.oversized = Len(tracks) > limit + 2 * AdditionalLimit,
                                    !.offered = {tracks[i] : i \in 1..Len(tracks)}]

NextRank == DirectAnswer

SpecRank == InitRank /\ [][NextRank]_vars

\* the position at which the list s first holds track x
FirstIndex(s, x) == CHOOSE i \in 1..Len(s) : s[i] = x /\ \A j \in 1..(i - 1) : s[j] # x

\* C30: the list the ranked variant returns is in descending order of
\* getTamilScore, and two tracks of equal score stand in the order in which
\* they first occur in the concatenation of the answers, which is their order
\* in uniqueTracks.
C30_RankedByScore ==
        (variant = "ranked" /\ ReturnedOk) =>
            \A i, j \in 1..Len(call.result) :
                i < j =>
                    /\ getTamilScore(call.result[i]) >= getTamilScore(call.result[j])
                    /\ getTamilScore(call.result[i]) = getTamilScore(call.result[j])
                           => FirstIndex(call.merged, call.result[i])
                                < FirstIndex(call.merged, call.result[j])

\* three tracks returned: the first has the highest score and came after the
\* third; the second and third have the same score
C30_Witness ==
    /\ variant = "ranked" /\ ReturnedOk /\ Len(call.result) = 3
    /\ getTamilScore(call.result[1]) > getTamilScore(call.result[2])
    /\ getTamilScore(call.result[2]) = getTamilScore(call.result[3])
    /\ FirstIndex(call.merged, call.result[1]) > FirstIndex(call.merged, call.result[3])

----------------------------------------------------------------------------
(* SpecScore: the ranked searchByEmotion from its last request on, holding  *)
(* one track of any combination of score indicators                         *)

InitScore ==
    /\ now = 0
    /\ variant = "ranked"
    /\ localStorage \in StoredCredentials \ {EmptyLocal}
    /\ accessToken = localStorage.token
    /\ tokenExpiry = localStorage.expiry
    /\ codeVerifier = Some(1)
    /\ sessionStorage = [verifier |-> Some(1)]
    /\ url = NoParams
    /\ page = "loaded"
    /\ authResult = Neutral
    /\ authLog = NoAuthLog
    /\ nextVerifier = 2
    /\ attempts = <<>>
    /\ loggedOut = FALSE
    /\ lastExchange = None
    /\ fetches = EmptyBag
    /\ AppInit
    /\ \E limit \in 1..MaxLimit, id \in IndicatorTrackIds :
           call = [IdleFetch EXCEPT !.pc = "wait", !.emotion = AllEmotions[1],
                                    !.limit = limit, !.step = NumSteps("ranked"),
                                    !.allTracks = <<id>>, !.sent = RankedSent(limit),
                                    !.authAtCall = TRUE,
                                    !.okSteps = 1..(NumSteps("ranked") - 1),
                                    !.offered = {id}]

NextScore == DirectAnswer

SpecScore == InitScore /\ [][NextScore]_vars

\* the tracks getTamilScore was applied to when the call sorted them
Scored == {call.merged[i] : i \in 1..Len(call.merged)}

\* "High priority indicators" and "Medium priority indicators" of getTamilScore
StrongScoreWords == {"tamil", "anirudh", "ar rahman", "ilayaraja", "yuvan", "gv prakash"}
WeakScoreWords   == {"hindi", "telugu", "malayalam"}

OnlyOneWeak(id) ==
    /\ ~NameInTamilScript(id)
    /\ \E w \in WeakScoreWords : Words(id) = {w}

\* the tracks that match one medium-priority indicator and nothing else
OneWeakTrackIds == {id \in IndicatorTrackIds : OnlyOneWeak(id)}

\* C31: the score of every track sorted is an integer in 0..10, whatever
\* indicators it matches, and a track matching a high-priority indicator
\* scores no less than any track matching one medium-priority indicator only.
C31_ScoreBounded ==
        \A a \in Scored :
            /\ getTamilScore(a) \in 0..ScoreCap
            /\ Words(a) \cap StrongScoreWords # {} =>
                   \A b \in OneWeakTrackIds : getTamilScore(a) >= getTamilScore(b)

\* a track matching every indicator (32 points before the cap) was sorted and
\* returned
C31_Witness ==
    /\ ReturnedOk /\ variant = "ranked"
    /\ \E a \in Scored :
           /\ Words(a) = {ScoreIndicators[i] : i \in 1..(Len(ScoreIndicators) - 1)}
           /\ NameInTamilScript(a)
           /\ getTamilScore(a) = ScoreCap
           /\ InSeq(call.result, a)

----------------------------------------------------------------------------
(* Properties of searchByEmotion, continued *)

\* C1: the list a call returns contains no identifier twice, whatever the
\* catalog answered (repeated identifiers, failed queries) in any variant.
C1_NoDuplicateIds ==
        (call.pc = "done" /\ call.outcome = "ok") => Distinct(call.result)

\* a call that was offered an identifier twice and returned two tracks
C1_Witness == ReturnedOk /\ call.dupOffered /\ Len(call.result) = 2

\* C2: a call with limit N returns at most N tracks, also when an answer
\* carries more records than the query requested.
C2_AtMostLimit ==
        (call.pc = "done" /\ call.outcome = "ok")
            => Len(call.result) <= call.limit

\* a call that got an oversized answer and returned exactly limit tracks
C2_Witness ==
    /\ ReturnedOk /\ call.oversized
    /\ call.limit > 0 /\ Len(call.result) = call.limit

\* C4: when every planned query and the fallback query were sent and all of
\* them failed, the call fails; it does not return a list.
C4_AllFailedIsError ==
        (/\ call.pc = "done"
         /\ call.okSteps = {}
         /\ Len(call.sent) = NumSteps(variant))
            => call.outcome # "ok"

\* the errors of a single catalog query: no answer, an error status other
\* than 401, an answer without the expected fields
QueryErrors == {"NetworkError", "ApiError", "TypeError"}

\* C5: the failure of a single query, the first one included, never aborts the
\* call: a call ends with a query's error only after every one of its queries
\* was tried and none succeeded.
C5_SingleFailureNeverAborts ==
        (call.pc = "done" /\ call.outcome \in QueryErrors)
            => (call.okSteps = {} /\ call.failSteps = 1..NumSteps(variant))

\* C6: a call made without a valid credential fails with the
\* not-authenticated error and sends no catalog request.
C6_UnauthenticatedFails ==
        (call.pc = "done" /\ ~call.authAtCall)
            => (call.outcome = "NotAuthenticated" /\ call.sent = <<>>)

\* C7: a call one of whose requests was answered 401 leaves the credential
\* cleared and ends with the session-expired error.
C7_401ClearsAndReports ==
        (call.pc = "done" /\ call.got401)
            => (/\ CredentialCleared
                /\ ~isAuthenticated(Auth, now).ret
                /\ call.outcome = "SessionExpired")

\* the documented order of the planned queries
PlannedOrder == <<"tamil", "telugu", "english", "malayalam">>

\* C22: in the language variant the planned queries are sent in the order
\* tamil, telugu, english, malayalam, each asking for ceil(limit / 4) records,
\* and a query is sent only after every earlier one was answered and folded,
\* or failed.
C22_PlannedQueriesInOrder ==
        variant = "language" =>
            /\ \A i \in 1..Len(call.sent) :
                   i <= Len(PlannedOrder) =>
                       /\ call.sent[i].q = PlannedOrder[i]
                       /\ call.sent[i].n = CeilDiv(call.limit, Len(PlannedOrder))
            /\ call.pc = "wait" =>
                   /\ Len(call.sent) = call.step
                   /\ call.okSteps \cup call.failSteps = 1..(call.step - 1)

\* all four planned queries were sent and two of them contributed
C22_Witness ==
    /\ ReturnedOk /\ variant = "language" /\ call.limit = 2
    /\ Len(call.sent) >= Len(PlannedOrder)
    /\ Cardinality(call.okSteps) >= 2 /\ Len(call.result) = 2

IsPrefix(s, t) == Len(s) <= Len(t) /\ SubSeq(t, 1, Len(s)) = s

\* the accumulator after this step of the call: the list returned, once it returns
Accumulated == IF call'.pc = "done" THEN call'.result ELSE call'.allTracks

\* C23: in the language and Tamil-only variants the fold of an answer only
\* appends tracks whose identifier the accumulator does not hold: the tracks
\* accumulated before keep their positions, in the list returned too.
C23_FirstSeenWins ==
    [][(variant # "ranked" /\ call.pc = "wait" /\ call' # call
           /\ ~(call'.pc = "done" /\ call'.outcome # "ok"))
          => (IsPrefix(call.allTracks, Accumulated) /\ Distinct(Accumulated))]_vars

\* an identifier came again in a later answer; both tracks were returned
C23_Witness ==
    /\ ReturnedOk /\ variant # "ranked" /\ call.dupOffered
    /\ Cardinality(call.okSteps) >= 3 /\ Len(call.result) = 2

\* the distinct tracks accumulated so far
AccumulatedIds == {call.allTracks[i] : i \in 1..Len(call.allTracks)}

\* C24 as stated, for a positive limit: no catalog query is in flight, i.e.
\* was sent, once the accumulator holds limit tracks.
C24_NoQueryOnceFull ==
        (call.pc = "wait" /\ call.limit > 0) => Cardinality(AccumulatedIds) < call.limit

\* the queries whose loop tests the accumulator against limit before sending:
\* all of the language variant, the Tamil-only variant's after its first
TestedAgainstLimit == \/ variant = "language"
                      \/ variant = "tamilOnly" /\ call.step > 1

\* C24 as amended: a query sent after that test is never in flight once the
\* accumulator holds limit tracks.
C24_NoGuardedQueryOnceFull ==
        (call.pc = "wait" /\ TestedAgainstLimit) => Cardinality(AccumulatedIds) < call.limit

\* the second answer filled the accumulator and the call returned with two
\* of its five queries sent
C24_Witness ==
    /\ ReturnedOk /\ variant = "language" /\ call.limit = 2
    /\ Len(call.sent) = 2 /\ call.okSteps = {1, 2} /\ Len(call.result) = 2

\* the text of the fallback query as the code builds it: the keywords of the
\* emotion without a language word, or `tamil ${emotion} songs`
FallbackText ==
    IF variant = "language" THEN <<emotionKeywords(call.emotion)>>
    ELSE <<"tamil", call.emotion, "songs">>

\* the fallback query is the last query, sent at most once, while the
\* accumulator is short of limit, with 2 * (limit - size) as its limit=
\* parameter; a call that returns without having tried it returns limit
\* tracks; the list returned holds no identifier twice
FallbackWhenShort ==
    /\ \A i \in 1..Len(call.sent) :
           call.sent[i].q \in {"general", "broad"} => i = Len(call.sent)
    /\ (call.pc = "wait" /\ call.step = NumSteps(variant)) =>
           /\ Len(call.allTracks) < call.limit
           /\ call.sent[Len(call.sent)].n = 2 * (call.limit - Len(call.allTracks))
    /\ (ReturnedOk /\ NumSteps(variant) \notin call.okSteps \cup call.failSteps) =>
           Len(call.result) = call.limit
    /\ ReturnedOk => Distinct(call.result)

\* C25 as amended: the fallback query is sent at most once, exactly when the
\* accumulator is short of limit after the planned queries, asks for twice the
\* shortfall and is merged without duplicates; its text is the keyword text
\* of the emotion (language variant) or `tamil ${emotion} songs` (Tamil-only).
C25_FallbackQueryKeywords ==
        variant # "ranked" =>
            /\ FallbackWhenShort
            /\ \A i \in 1..Len(call.sent) :
                   call.sent[i].q \in {"general", "broad"} => call.sent[i].text = FallbackText

\* the fallback query was sent with one track missing, answered with a track
\* the accumulator held and a new one, and the call returned limit tracks
C25_Witness ==
    /\ ReturnedOk /\ variant # "ranked" /\ call.limit = 2
    /\ NumSteps(variant) \in call.okSteps /\ call.sent[Len(call.sent)].n = 2
    /\ call.dupOffered /\ Len(call.result) = 2

\* C25 as stated: the same, with the emotion's own text as the only search
\* text of the fallback query.
C25_FallbackQuery ==
        variant # "ranked" =>
            /\ \A i \in 1..Len(call.sent) :
                   call.sent[i].q \in {"general", "broad"} =>
                       /\ i = Len(call.sent)
                       /\ call.sent[i].text = <<call.emotion>>
            /\ (call.pc = "wait" /\ call.step = NumSteps(variant)) =>
                   /\ Len(call.allTracks) < call.limit
                   /\ call.sent[Len(call.sent)].n = 2 * (call.limit - Len(call.allTracks))
            /\ (ReturnedOk /\ NumSteps(variant) \notin call.okSteps \cup call.failSteps) =>
                   Len(call.result) = call.limit
            /\ ReturnedOk => Distinct(call.result)

\* the artwork-bearing identifiers the queries of the call returned
ArtOffered == {id \in call.offered : HasArt(id)}

\* C12: when the queries of a call (the fallback query included when it is
\* issued) together returned at least limit distinct artwork-bearing
\* identifiers, the call returns exactly limit tracks, all distinct.
C12_ExactlyLimitWhenEnough ==
        (/\ call.pc = "done" /\ call.outcome = "ok"
         /\ variant # "tamilOnly"
         /\ Cardinality(ArtOffered) >= call.limit)
            => (Len(call.result) = call.limit /\ Distinct(call.result))

\* two queries that shared an identifier and offered two artwork-bearing
\* identifiers between them, limit 2
C12_Witness ==
    /\ ReturnedOk /\ variant = "language"
    /\ call.limit = 2 /\ Cardinality(call.okSteps) >= 2
    /\ call.dupOffered /\ Cardinality(ArtOffered) = 2
    /\ Len(call.result) = 2

\* C16: in the Tamil-only variant every track a call returns satisfies
\* isTamilSong, whichever query it came from.
C16_TamilOnlyReturnsTamil ==
        (variant = "tamilOnly" /\ call.pc = "done" /\ call.outcome = "ok")
            => \A i \in 1..Len(call.result) : isTamilSong(call.result[i])

\* a Tamil-only call that was offered an artwork-bearing track that is not
\* Tamil, after its first query, and returned a track
C16_Witness ==
    /\ variant = "tamilOnly" /\ ReturnedOk /\ call.result # <<>>
    /\ Cardinality(call.okSteps) >= 2
    /\ \E id \in ArtOffered : ~isTamilSong(id)

----------------------------------------------------------------------------
(* SpecAuth: the token lifecycle of one browser tab across page loads      *)

FreshApp ==
    /\ call' = IdleFetch
    /\ fetches' = EmptyBag
    /\ currentEmotion' = None
    /\ currentPlaylist' = <<>>
    /\ playlistCache' = [m \in {} |-> <<>>]
    /\ timeout' = None
    /\ loading' = FALSE
    /\ errorMessage' = ""
    /\ displayed' = <<>>
    /\ fetched' = [m \in {} |-> <<>>]
    /\ lastRequest' = NoRequest
    /\ discarded' = {}
    /\ superseded' = None
    /\ effectEmotion' = None
    /\ animationId' = None
    /\ currentlyPlayingTrack' = None

\* the page loads with URL parameters u: new SpotifyAPI(), then init() awaits
\* handleAuthCallback() and, unless it succeeded, asks isAuthenticated()
LoadPage(u, ans) ==
    LET c   == Constructor(Auth, nextVerifier)
        h   == handleAuthCallback(c.A, u, now, ans)
        chk == IF h.result.success THEN [ret |-> TRUE, A |-> h.A]
               ELSE isAuthenticated(h.A, now)
    IN  /\ c.generated => nextVerifier <= MaxVerifiers
        /\ SetAuth(chk.A)
        /\ codeVerifier' = c.codeVerifier
        /\ nextVerifier' = IF c.generated THEN nextVerifier + 1 ELSE nextVerifier
        /\ url' = h.url
        /\ authResult' = h.result
        /\ authLog' = [ran |-> TRUE, at |-> now, sent |-> h.sent, tries |-> h.tries,
                       answer |-> IF h.sent # None THEN ans.kind ELSE "none",
                       expiresIn |-> IF h.sent # None THEN ans.expiresIn ELSE 0,
                       before |-> Some(Snapshot(c.A, u)),
                       after |-> Some(Snapshot(h.A, h.url))]
        /\ loggedOut' = IF h.result.success THEN FALSE
                        ELSE loggedOut \/ (h.A.accessToken # None /\ chk.A.accessToken = None)
        /\ lastExchange' = IF h.result.success
                           THEN Some([at |-> now, expiresIn |-> ans.expiresIn])
                           ELSE lastExchange
        /\ page' = "loaded"
        /\ FreshApp
        /\ UNCHANGED <<now, variant, attempts>>

\* the user reloads the page; the address bar keeps whatever it shows
Reload ==
    /\ page = "loaded"
    /\ \E ans \in TokenAnswers : LoadPage(url, ans)

\* what the authorization endpoint appends to the redirect address
CallbackParams ==
    {[code |-> Some([challenge |-> attempts[Len(attempts)]]), error |-> None,
      description |-> None]}
    \cup {[code |-> None, error |-> Some(e), description |-> d]
            : e \in ErrorKinds, d \in {None, Some("text from the server")}}

\* the authorization endpoint redirects back to the application
AuthorizationReturn ==
    /\ page = "away"
    /\ \E u \in CallbackParams, ans \in TokenAnswers : LoadPage(u, ans)

\* auth button, connected: logout()
ClickDisconnect ==
    /\ page = "loaded"
    /\ isAuthenticated(Auth, now).ret
    /\ SetAuth(logout(Auth))
    /\ loggedOut' = TRUE
    /\ UNCHANGED <<now, variant, codeVerifier, pageVars, lastExchange, call, fetches, appVars>>

\* auth button, not connected: authenticate() leaves for the authorization endpoint
ClickConnect ==
    /\ page = "loaded"
    /\ ~isAuthenticated(Auth, now).ret
    /\ Len(attempts) < MaxAttempts
    /\ SetAuth(isAuthenticated(Auth, now).A)
    /\ NoteLogout(Auth, isAuthenticated(Auth, now).A)
    /\ attempts' = Append(attempts, generateCodeChallenge(Val(codeVerifier)))
    /\ page' = "away"
    /\ UNCHANGED <<now, variant, codeVerifier, url, authResult, authLog, nextVerifier,
                   lastExchange, call, fetches, appVars>>

\* isAuthenticated() is called
CheckAuthenticated ==
    /\ page = "loaded"
    /\ SetAuth(isAuthenticated(Auth, now).A)
    /\ NoteLogout(Auth, isAuthenticated(Auth, now).A)
    /\ UNCHANGED <<now, variant, codeVerifier, pageVars, lastExchange, call, fetches, appVars>>

\* mutant: every failed catalog request logs the user out
apiRequestLogsOutOnAnyError(A, t, resp) ==
    LET chk == isAuthenticated(A, t)
    IN  IF ~chk.ret THEN [A |-> chk.A, sent |-> FALSE, error |-> "NotAuthenticated"]
        ELSE IF IsFailure(resp) THEN [A |-> logout(chk.A), sent |-> TRUE, error |-> ErrorOf(resp)]
        ELSE [A |-> chk.A, sent |-> TRUE, error |-> "none"]

\* apiRequest(endpoint): the credential state it leaves and the error thrown
apiRequest(A, t, resp) ==
    LET chk == isAuthenticated(A, t)
    IN  IF ~chk.ret THEN [A |-> chk.A, sent |-> FALSE, error |-> "NotAuthenticated"]
        ELSE IF resp.kind = "401" THEN [A |-> logout(chk.A), sent |-> TRUE, error |-> ErrorOf(resp)]
        ELSE IF IsFailure(resp) THEN [A |-> chk.A, sent |-> TRUE, error |-> ErrorOf(resp)]
        ELSE [A |-> chk.A, sent |-> TRUE, error |-> "none"]

\* getUserProfile(): one catalog request outside a search
GetUserProfile ==
    /\ page = "loaded"
    /\ \E resp \in Answers(0) :
        /\ SetAuth(apiRequest(Auth, now, resp).A)
        /\ NoteLogout(Auth, apiRequest(Auth, now, resp).A)
    /\ UNCHANGED <<now, variant, codeVerifier, pageVars, lastExchange, call, fetches, appVars>>

InitAuth ==
    /\ now = 0
    /\ variant \in Variants
    /\ localStorage = EmptyLocal
    /\ accessToken = None
    /\ tokenExpiry = None
    /\ codeVerifier = Some(1)
    /\ sessionStorage = [verifier |-> Some(1)]
    /\ url = NoParams
    /\ page = "loaded"
    /\ authResult = Neutral
    /\ authLog = NoAuthLog
    /\ nextVerifier = 2
    /\ attempts = <<>>
    /\ loggedOut = FALSE
    /\ lastExchange = None
    /\ call = IdleFetch
    /\ fetches = EmptyBag
    /\ AppInit

NextAuth ==
    \/ Reload
    \/ AuthorizationReturn
    \/ ClickDisconnect
    \/ ClickConnect
    \/ CheckAuthenticated
    \/ GetUserProfile
    \/ Tick

SpecAuth == InitAuth /\ [][NextAuth]_vars

----------------------------------------------------------------------------
(* SpecStored: the token lifecycle when the tab opens on whatever an       *)
(* earlier visit left in localStorage; the constructor reads the token and *)
(* the expiry as two independent keys                                       *)

InitStored ==
    /\ now = 0
    /\ variant \in Variants
    /\ localStorage \in
           {[token |-> tk, expiry |-> e, refresh |-> None]
               : tk \in {None, Some("tok")},
                 e \in {None} \cup {Some(k * MsPerSecond) : k \in 0..MaxTicks}}
    /\ accessToken = localStorage.token
    /\ tokenExpiry = localStorage.expiry
    /\ codeVerifier = Some(1)
    /\ sessionStorage = [verifier |-> Some(1)]
    /\ url = NoParams
    /\ page = "loaded"
    /\ authResult = Neutral
    /\ authLog = NoAuthLog
    /\ nextVerifier = 2
    /\ attempts = <<>>
    /\ loggedOut = FALSE
    /\ lastExchange = None
    /\ call = IdleFetch
    /\ fetches = EmptyBag
    /\ AppInit

SpecStored == InitStored /\ [][NextAuth]_vars

----------------------------------------------------------------------------
(* Properties of the Token Manager, checked under SpecAuth *)

HandlerBefore == Val(authLog.before)
HandlerAfter  == Val(authLog.after)

\* the instant the credential of the latest exchange stops being valid
ExpiryInstant ==
    Val(lastExchange).at + (Val(lastExchange).expiresIn - SafetyMargin) * MsPerSecond

\* C8: after logout(), and until a token exchange succeeds, isAuthenticated()
\* returns false; it also returns false whenever the stored expiry lies in the
\* past although a token is still stored.
C8_FalseAfterLogoutOrExpiry ==
    /\ loggedOut => ~isAuthenticated(Auth, now).ret
    /\ (localStorage.token # None /\ localStorage.expiry # None
            /\ now > Val(localStorage.expiry))
          => ~isAuthenticated(Auth, now).ret

\* logged out after a login whose credential would still be valid
C8_Witness ==
    /\ loggedOut /\ lastExchange # None
    /\ Val(lastExchange).expiresIn > SafetyMargin
    /\ now < ExpiryInstant

\* C9: a callback with a code and a stored verifier, answered with success and
\* expires_in = E > 60 at instant t, returns success and stores the expiry
\* t + (E - 60) s; from then on isAuthenticated() is true at every instant
\* before that expiry unless logout() ran.
C9_ExchangeStoresExpiry ==
    /\ (/\ authLog.ran
        /\ HandlerBefore.url.code # None /\ HandlerBefore.url.error = None
        /\ HandlerBefore.A.ss.verifier # None
        /\ authLog.answer = "ok" /\ authLog.expiresIn > SafetyMargin)
          => (/\ authResult.success
              /\ HandlerAfter.A.ls.expiry
                    = Some(authLog.at + (authLog.expiresIn - SafetyMargin) * MsPerSecond)
              /\ HandlerAfter.A.ls.token # None)
    /\ (/\ lastExchange # None /\ Val(lastExchange).expiresIn > SafetyMargin
        /\ ~loggedOut /\ now < ExpiryInstant)
          => isAuthenticated(Auth, now).ret

\* a later instant, after a reload, still before the expiry of a successful exchange
C9_Witness ==
    /\ lastExchange # None /\ ~loggedOut
    /\ Val(lastExchange).expiresIn > SafetyMargin
    /\ now > Val(lastExchange).at /\ now < ExpiryInstant
    /\ localStorage.expiry = Some(ExpiryInstant)
    /\ authLog.sent = None

\* C10: a callback carrying an error parameter returns a failure with that
\* error kind (access_denied with the cancelled-or-denied message), strips the
\* query from the URL, sends no token request and leaves the credential as it was.
C10_ErrorCallback ==
    (authLog.ran /\ HandlerBefore.url.error # None)
        => (/\ ~authResult.success
            /\ authResult.error = HandlerBefore.url.error
            /\ (HandlerBefore.url.error = Some("access_denied")
                    /\ HandlerBefore.url.description = None)
                 => authResult.errorDescription
                        = Some("Authentication was cancelled or denied.")
            /\ HandlerAfter.url = NoParams
            /\ authLog.sent = None
            /\ HandlerAfter.A = HandlerBefore.A)

\* the handler has just run on ?error=access_denied
C10_Witness ==
    /\ authLog.ran /\ HandlerBefore.url.error = Some("access_denied")
    /\ HandlerBefore.url.description = None
    /\ url = NoParams /\ ~authResult.success

\* C14: whenever logout() runs, no access token, expiry, refresh token or PKCE
\* verifier is left afterwards: not in localStorage, not in sessionStorage and
\* not in the client's fields.
C14_LogoutClearsEverything ==
    [][(accessToken # None /\ accessToken' = None)
          => (/\ tokenExpiry' = None
              /\ localStorage' = EmptyLocal
              /\ sessionStorage' = EmptySession
              /\ codeVerifier' = None)]_vars

\* C18: a stored credential is valid only strictly before its stored
\* (margin-adjusted) expiry: from the instant now equals it, isAuthenticated()
\* returns false.
C18_InvalidAtExpiryInstant ==
    (accessToken # None /\ tokenExpiry # None /\ now >= Val(tokenExpiry))
        => ~isAuthenticated(Auth, now).ret

\* C19: no two redirects to the authorization endpoint carry the challenge of
\* the same verifier.
C19_FreshVerifierPerAttempt == Distinct(attempts)

\* the answers with which a token exchange fails
FailedAnswers == {"notOk", "notOkUnreadable", "network"}

\* C20: on a callback carrying a code, a successful exchange leaves no verifier
\* in sessionStorage and no query in the URL; an exchange that the endpoint
\* fails or that gets no answer returns an error with a kind and leaves the
\* stored verifier as it was.
C20_VerifierAfterCallback ==
    (authLog.ran /\ HandlerBefore.url.code # None /\ HandlerBefore.url.error = None)
        => (/\ authResult.success
                  => (/\ HandlerAfter.A.ss.verifier = None
                      /\ HandlerAfter.url = NoParams)
            /\ (authLog.sent # None /\ authLog.answer \in FailedAnswers)
                  => (/\ ~authResult.success
                      /\ authResult.error # None
                      /\ HandlerAfter.A.ss = HandlerBefore.A.ss
                      /\ HandlerAfter.A.ss.verifier # None))

\* the exchange of a returned code has just failed for lack of an answer
C20_Witness ==
    /\ authLog.ran /\ HandlerBefore.url.code # None
    /\ authLog.sent # None /\ authLog.answer = "network"
    /\ authResult.error = Some("network_error")
    /\ sessionStorage.verifier # None

\* what isAuthenticated() would return now
Authenticated == isAuthenticated(Auth, now).ret

\* a catalog request changes a valid credential only by logout(), on a 401
OnlyA401Clears ==
    \A resp \in Answers(0) :
        (Authenticated /\ apiRequest(Auth, now, resp).A # Auth)
            => (resp.kind = "401" /\ apiRequest(Auth, now, resp).A = logout(Auth))

\* this step is a page load whose handler exchanged a returned code successfully
ExchangedNow ==
    /\ page' = "loaded"
    /\ authResult'.success
    /\ authLog'.at = now /\ authLog'.answer = "ok"
    /\ authLog'.sent # None
    /\ Val(authLog'.before).url.code # None
    /\ lastExchange' = Some([at |-> now, expiresIn |-> authLog'.expiresIn])

\* in this step the clock passes the stored expiry, or logout() runs
ExpiredOrLoggedOutNow ==
    \/ tokenExpiry # None /\ now' > Val(tokenExpiry)
    \/ /\ accessToken' = None /\ tokenExpiry' = None
       /\ localStorage'.token = None /\ loggedOut'

\* this step is the return from the authorization endpoint with an error
ErrorReturnNow ==
    page = "away" /\ page' = "loaded" /\ Val(authLog'.before).url.error # None

\* C21: isAuthenticated() turns from false to true only in a page load whose
\* handler exchanged a returned code successfully; it turns from true to
\* false only when the clock passes the stored expiry or logout() runs, which
\* a catalog request does on a 401 answer and on no other answer; after a
\* callback that carries an error parameter the user is not authenticated.
C21_AuthenticationTransitions ==
    /\ []OnlyA401Clears
    /\ [][((~Authenticated /\ Authenticated') => ExchangedNow)
           /\ ((Authenticated /\ ~Authenticated') => ExpiredOrLoggedOutNow)
           /\ (ErrorReturnNow => ~Authenticated')]_vars

\* a second authorization attempt, made after a login and a logout, has come
\* back with an error parameter
C21_Witness ==
    /\ authLog.ran /\ HandlerBefore.url.error # None
    /\ lastExchange # None /\ loggedOut
    /\ Len(attempts) = 2
    /\ ~Authenticated

----------------------------------------------------------------------------
(* The handler's outcomes, checked under SpecAuth *)

\* the error values exchangeCodeForToken returns for a failing answer
TypedErrors(answer) ==
    IF answer = "notOk" THEN {Some("invalid_grant"), Some("token_exchange_failed")}
    ELSE {Some("network_error")}

\* C27: a page load sends at most one token request, and exactly one when the
\* URL carries a code; when the endpoint answers with an error status or not
\* at all, the handler returns success: false with the error kind of that
\* failure, and the credential state is what it was before the handler ran.
C27_OneRequestTypedError ==
        authLog.ran =>
            /\ authLog.tries <= 1
            /\ authLog.tries = 1 <=> (HandlerBefore.url.code # None /\ HandlerBefore.url.error = None)
            /\ authLog.tries = 1 <=> authLog.sent # None
            /\ authLog.answer \in FailedAnswers =>
                   /\ ~authResult.success
                   /\ authResult.error \in TypedErrors(authLog.answer)
                   /\ authResult.errorDescription # None
                   /\ HandlerAfter.A = HandlerBefore.A

\* the exchange of the second attempt was refused with an error code of the
\* endpoint
C27_Witness ==
    /\ authLog.ran /\ Len(attempts) = 2 /\ authLog.tries = 1
    /\ authLog.answer = "notOk" /\ authResult.error = Some("invalid_grant")
    /\ accessToken = None

\* a token is held and its stored expiry lies in the past
Expired == accessToken # None /\ tokenExpiry # None /\ now > Val(tokenExpiry)

CredentialAbsent(A) ==
    /\ A.accessToken = None /\ A.tokenExpiry = None
    /\ A.ls.token = None /\ A.ls.expiry = None

\* isAuthenticated() on the state as it is: what it returns and leaves
CheckedNow ==
    LET r == isAuthenticated(Auth, now)
    IN  IF Expired THEN ~r.ret /\ CredentialAbsent(r.A)
        ELSE r.A = Auth

ClearedNext ==
    /\ accessToken' = None /\ tokenExpiry' = None
    /\ localStorage'.token = None /\ localStorage'.expiry = None

\* C28: isAuthenticated() on an expired credential returns false and leaves
\* neither token nor expiry, in memory or in localStorage; on a valid or an
\* absent credential it changes nothing stored.
C28_ExpiredCheckClears ==
    /\ []CheckedNow
    /\ [][CheckAuthenticated =>
              ((Expired => ClearedNext) /\ (~Expired => UNCHANGED authVars))]_vars

\* the credential a successful exchange stored is gone, the verifier with it,
\* and its expiry instant has passed
C28_Witness ==
    /\ loggedOut /\ lastExchange # None /\ now > ExpiryInstant
    /\ CredentialAbsent(Auth) /\ sessionStorage.verifier = None
    /\ authResult.success

\* C29: a page load whose URL has neither code nor error: the handler returns
\* success: false without error or description, sends nothing, and leaves the
\* credential state, the verifier and the URL as they were.
C29_PlainLoadIsNeutral ==
        (authLog.ran /\ HandlerBefore.url.code = None /\ HandlerBefore.url.error = None) =>
            /\ authResult = Neutral
            /\ authLog.sent = None /\ authLog.tries = 0
            /\ HandlerAfter = HandlerBefore

\* the page was reloaded while connected, after the callback URL was cleaned
C29_Witness ==
    /\ authLog.ran /\ HandlerBefore.url = NoParams
    /\ HandlerBefore.A.accessToken # None /\ lastExchange # None
    /\ authResult = Neutral /\ isAuthenticated(Auth, now).ret

\* C36: isAuthenticated() returns true only if a token and an expiry instant
\* are both stored and the expiry is in the future.
C36_AuthenticatedNeedsTokenAndExpiry ==
        Authenticated =>
            /\ localStorage.token # None
            /\ localStorage.expiry # None
            /\ Val(localStorage.expiry) > now

\* C35: when the callback handler has run, whatever its outcome, the visible
\* URL carries neither a code nor an error parameter.
C35_UrlCleanedAfterHandler ==
        authLog.ran => (HandlerAfter.url.code = None /\ HandlerAfter.url.error = None)

\* C39: in the application flow (constructor, then one handler run) a verifier
\* is in session storage whenever the URL carries a code, the code is sent and
\* the missing-verifier error is never produced.
C39_VerifierPresentAtExchange ==
        /\ authResult.error # Some("missing_code_verifier")
        /\ (authLog.ran /\ HandlerBefore.url.code # None /\ HandlerBefore.url.error = None)
              => (HandlerBefore.A.ss.verifier # None /\ authLog.sent # None)

\* a code is exchanged on a load for which the constructor had to generate
\* the verifier (the session entry was removed by the previous exchange)
C39_Witness ==
    /\ authLog.ran /\ authLog.sent # None
    /\ HandlerBefore.url.code # None
    /\ Len(attempts) = 2
    /\ Val(authLog.sent).code_verifier > 1

\* C32: the code_verifier of every token request is the verifier whose
\* challenge went out with the authorization request that produced the code.
C32_VerifierMatchesChallenge ==
        (authLog.ran /\ authLog.sent # None) =>
            generateCodeChallenge(Val(authLog.sent).code_verifier)
                = Val(authLog.sent).code.challenge

----------------------------------------------------------------------------
(* SpecExchange: one direct call of exchangeCodeForToken on a constructed  *)
(* client                                                                   *)

\* authorization codes, each bound to the challenge it was issued for
ExchangeCodes == {[challenge |-> generateCodeChallenge(v)] : v \in 1..MaxVerifiers}

\* the client after construction, or after a successful callback or a
\* logout() removed the verifier from sessionStorage
InitExchange ==
    /\ now = 0
    /\ variant = "language"
    /\ localStorage \in StoredCredentials
    /\ accessToken = localStorage.token
    /\ tokenExpiry = localStorage.expiry
    /\ codeVerifier = Some(1)
    /\ sessionStorage \in {[verifier |-> Some(1)], EmptySession}
    /\ url = NoParams
    /\ page = "loaded"
    /\ authResult = Neutral
    /\ authLog = NoAuthLog
    /\ nextVerifier = 2
    /\ attempts = <<>>
    /\ loggedOut = FALSE
    /\ lastExchange = None
    /\ call = IdleFetch
    /\ fetches = EmptyBag
    /\ AppInit

\* exchangeCodeForToken(code) is called and the endpoint answers ans
ExchangeCall(code, ans) ==
    /\ ~authLog.ran
    /\ \E x \in {exchangeCodeForToken(Auth, now, code, ans)} :
           /\ SetAuth(x.A)
           /\ authResult' = x.result
           /\ authLog' = [ran |-> TRUE, at |-> now, sent |-> x.sent, tries |-> x.tries,
                          answer |-> IF x.sent # None THEN ans.kind ELSE "none",
                          expiresIn |-> IF x.sent # None THEN ans.expiresIn ELSE 0,
                          before |-> Some(Snapshot(Auth, url)),
                          after |-> Some(Snapshot(x.A, url))]
           /\ lastExchange' = IF x.result.success
                              THEN Some([at |-> now, expiresIn |-> ans.expiresIn])
                              ELSE lastExchange
           /\ loggedOut' = (loggedOut /\ ~x.result.success)
    /\ UNCHANGED <<now, variant, codeVerifier, url, page, nextVerifier, attempts,
                   call, fetches, appVars>>

\* logout() is called
LogoutCall ==
    /\ SetAuth(logout(Auth))
    /\ loggedOut' = TRUE
    /\ UNCHANGED <<now, variant, codeVerifier, pageVars, lastExchange, call, fetches, appVars>>

NextExchange ==
    \/ \E code \in ExchangeCodes, ans \in TokenAnswers : ExchangeCall(code, ans)
    \/ LogoutCall
    \/ CheckAuthenticated
    \/ Tick

SpecExchange == InitExchange /\ [][NextExchange]_vars

\* C26: exchangeCodeForToken called while sessionStorage holds no verifier
\* returns the missing_code_verifier error, sends no request, and leaves the
\* credential state as it was.
C26_NoVerifierNoRequest ==
        (authLog.ran /\ HandlerBefore.A.ss.verifier = None) =>
            /\ ~authResult.success
            /\ authResult.error = Some("missing_code_verifier")
            /\ authLog.sent = None /\ authLog.tries = 0
            /\ HandlerAfter.A = HandlerBefore.A

\* the call was made on a client whose earlier callback had succeeded: a
\* token is held and the verifier is gone
C26_Witness ==
    /\ authLog.ran /\ HandlerBefore.A.ss.verifier = None
    /\ HandlerBefore.A.accessToken # None /\ HandlerAfter.A.accessToken # None
    /\ authResult.error = Some("missing_code_verifier")

----------------------------------------------------------------------------
(* Spec: one page session of MusicRecommendationApp on a constructed client *)

\* the fields of a call that the program holds; the bookkeeping is dropped
ProgramState(f) ==
    [f EXCEPT !.sent = <<>>, !.authAtCall = FALSE, !.got401 = FALSE,
              !.okSteps = {}, !.failSteps = {}, !.dupOffered = FALSE, !.oversized = FALSE,
              !.offered = {}, !.merged = <<>>]

\* the bag of the calls still awaited, after call f ran up to its next await
Held(f) == IF f.pc = "done" THEN EmptyBag ELSE SetToBag({ProgramState(f)})

ErrorText(outcome) ==
    CASE outcome = "NotAuthenticated" -> "Not authenticated. Please connect to Spotify."
      [] outcome = "SessionExpired"   -> "Session expired. Please reconnect to Spotify."
      [] OTHER                        -> "Failed to fetch playlist. Please try again."

\* mutant: the playlist is displayed but not cached
ResolveNoCache(e, f) ==
    /\ IF f.outcome = "ok" /\ Len(f.result) > 0
       THEN /\ playlistCache' = playlistCache
            /\ currentPlaylist' = f.result
            /\ displayed' = f.result
            /\ errorMessage' = errorMessage
       ELSE /\ errorMessage' = IF f.outcome = "ok"
                               THEN "Unable to load songs right now. This might be due to a temporary connection issue. Please try again in a moment."
                               ELSE ErrorText(f.outcome)
            /\ UNCHANGED <<playlistCache, currentPlaylist, displayed>>
    /\ loading' = FALSE
    /\ fetched' = IF f.outcome = "ok" THEN (e :> f.result) @@ fetched ELSE fetched

\* handleEmotionSelection after "await searchByEmotion": the call f for
\* emotion e has returned or thrown
Resolve(e, f) ==
    /\ IF f.outcome = "ok" /\ Len(f.result) > 0
       THEN /\ playlistCache' = (e :> f.result) @@ playlistCache
            /\ currentPlaylist' = f.result
            /\ displayed' = f.result
            /\ errorMessage' = errorMessage
       ELSE /\ errorMessage' = IF f.outcome = "ok"
                               THEN "Unable to load songs right now. This might be due to a temporary connection issue. Please try again in a moment."
                               ELSE ErrorText(f.outcome)
            /\ UNCHANGED <<playlistCache, currentPlaylist, displayed>>
    /\ loading' = FALSE
    /\ fetched' = IF f.outcome = "ok" THEN (e :> f.result) @@ fetched ELSE fetched

\* the emotions whose case in setEmotion's switch initialises an effect
EffectEmotions ==
    {"happy", "sad", "chill", "energetic", "romantic", "calm", "angry", "motivation"}

Effects == [currentEmotion |-> effectEmotion, animationId |-> animationId]

\* EmotionEffects.stop(): the pending frame is cancelled
stop(E) == [E EXCEPT !.animationId = None]

\* EmotionEffects.animate(): the next frame is requested; frames are numbered
\* from the start of the effect
animate(E) ==
    [E EXCEPT !.animationId = IF @ = None THEN Some(1) ELSE Some(Val(@) + 1)]

\* EmotionEffects.setEmotion(emotion)
setEmotion(E, emotion) ==
    IF E.currentEmotion = Some(emotion) THEN E
    ELSE LET F == [stop(E) EXCEPT !.currentEmotion = Some(emotion)]
         IN  IF emotion \in EffectEmotions THEN animate(F) ELSE F

\* mutant: a click leaves a pending debounce timer as it is
SelectEmotionKeepsPending(e) ==
    /\ page = "loaded"
    /\ \E E \in {setEmotion(Effects, e)} :
           /\ effectEmotion' = E.currentEmotion
           /\ animationId' = E.animationId
    /\ currentEmotion' = Some(e)
    /\ displayed' = <<>>
    /\ currentlyPlayingTrack' = None
    /\ timeout' = IF timeout = None THEN Some(e) ELSE timeout
    /\ lastRequest' = NoRequest
    /\ UNCHANGED <<now, variant, authVars, pageVars, histVars, call, fetches,
                   currentPlaylist, playlistCache, loading, errorMessage, fetched,
                   discarded>>

\* an emotion card is clicked: selectEmotion(e), with setEmotion(e),
\* clearPlaylist() and the debounced call, which replaces a pending timer
SelectEmotion(e) ==
    /\ page = "loaded"
    /\ \E E \in {setEmotion(Effects, e)} :
           /\ effectEmotion' = E.currentEmotion
           /\ animationId' = E.animationId
    /\ currentEmotion' = Some(e)
    /\ displayed' = <<>>
    /\ currentlyPlayingTrack' = None
    /\ timeout' = Some(e)
    /\ lastRequest' = NoRequest
    /\ UNCHANGED <<now, variant, authVars, pageVars, histVars, call, fetches,
                   currentPlaylist, playlistCache, loading, errorMessage, fetched,
                   discarded>>


\* the debounce timer fires: handleEmotionSelection(e) up to its first await;
\* cap bounds the searches awaited at once
TimerFires(cap) ==
    /\ page = "loaded"
    /\ timeout # None
    /\ timeout' = None
    /\ LET e     == Val(timeout)
           chk   == isAuthenticated(Auth, now)
       IN  IF ~chk.ret
           THEN /\ errorMessage' = "Please connect to Spotify first to discover music."
                /\ lastRequest' = [emotion |-> e, kind |-> "unauthenticated"]
                /\ SetAuth(chk.A)
                /\ NoteLogout(Auth, chk.A)
                /\ UNCHANGED <<fetches, currentPlaylist, playlistCache, loading,
                               displayed, fetched>>
           ELSE IF e \in DOMAIN playlistCache
           THEN /\ currentPlaylist' = playlistCache[e]
                /\ displayed' = playlistCache[e]
                /\ loading' = FALSE
                /\ errorMessage' = ""
                /\ lastRequest' = [emotion |-> e, kind |-> "hit"]
                /\ SetAuth(chk.A)
                /\ UNCHANGED <<fetches, playlistCache, fetched, loggedOut>>
           ELSE /\ BagCardinality(fetches) < cap
                /\ LET f0 == [IdleFetch EXCEPT !.emotion = e, !.limit = SearchLimit,
                                               !.authAtCall = TRUE]
                   IN  \E r \in {Advance(variant, f0, chk.A, now, 1)} :
                           /\ fetches' = fetches (+) Held(r.f)
                           /\ SetAuth(r.A)
                           /\ NoteLogout(Auth, r.A)
                           /\ lastRequest' = [emotion |-> e, kind |-> "miss"]
                           /\ IF r.f.pc = "done"
                              THEN Resolve(e, r.f)
                              ELSE /\ loading' = TRUE
                                   /\ errorMessage' = ""
                                   /\ UNCHANGED <<currentPlaylist, playlistCache, displayed,
                                                  fetched>>
    /\ UNCHANGED <<now, variant, codeVerifier, pageVars, lastExchange, call, currentEmotion,
                   discarded, superseded, effectEmotion, animationId,
                   currentlyPlayingTrack>>

DebounceFire == TimerFires(MaxFetches)

AppResponses ==
    {[kind |-> k, items |-> <<>>] : k \in {"network", "401"}}
    \cup {[kind |-> "ok", items |-> items] : items \in SeqsUpTo(1..AppNumTracks, AppMaxResp)}

\* the catalog answers the request of the awaited call f; when that ends the
\* call, handleEmotionSelection resumes
AppAnswer(f, resp) ==
    /\ BagIn(f, fetches)
    /\ \E r \in {Respond(variant, f, Auth, now, resp)} :
           /\ fetches' = (fetches (-) SetToBag({f})) (+) Held(r.f)
           /\ SetAuth(r.A)
           /\ NoteLogout(Auth, r.A)
           /\ IF r.f.pc = "done"
              THEN Resolve(f.emotion, r.f)
              ELSE UNCHANGED <<currentPlaylist, playlistCache, displayed, fetched,
                               loading, errorMessage>>
    /\ UNCHANGED <<now, variant, codeVerifier, pageVars, lastExchange, call,
                   currentEmotion, timeout, lastRequest, superseded, effectEmotion,
                   animationId, currentlyPlayingTrack>>

\* the page of scripts/spotify-api.js; the user is connected, with a
\* credential that outlasts the session
Init ==
    /\ InitSearch
    /\ variant = "language"
    /\ localStorage.expiry = Some(MaxTicks * MsPerSecond)

CardClick ==
    /\ \E e \in Moods : SelectEmotion(e)
    /\ UNCHANGED superseded

SearchAnswer ==
    /\ \E f \in BagToSet(fetches), resp \in AppResponses : AppAnswer(f, resp)
    /\ UNCHANGED discarded

Next ==
    \/ CardClick
    \/ DebounceFire
    \/ SearchAnswer


Spec == Init /\ [][Next]_vars

----------------------------------------------------------------------------
(* SpecMoods: a page session in which the user moves between emotions, and *)
(* the catalog returns records with and without cover art                   *)

SessionMoods == {AllEmotions[i] : i \in 1..NumSessionMoods}

\* one artwork-bearing and one art-less record
SessionTrackIds == {1, 3}

SessionResponses ==
    {[kind |-> "network", items |-> <<>>]}
    \cup {[kind |-> "ok", items |-> <<id>>] : id \in SessionTrackIds}

\* the click, with the record of the timers it replaced
MoodClick ==
    \E e \in SessionMoods :
        /\ SelectEmotion(e)
        /\ superseded' = timeout

\* the answer, with the record of the raw records that were dropped
MoodAnswer ==
    \E f \in BagToSet(fetches), resp \in SessionResponses :
        /\ AppAnswer(f, resp)
        /\ discarded' = discarded \cup
               {resp.items[i] : i \in {j \in 1..Len(resp.items) : ~HasArt(resp.items[j])}}

NextMoods == MoodClick \/ DebounceFire \/ MoodAnswer

SpecMoods == Init /\ [][NextMoods]_vars

\* the timer fires in a session in which a search may start while another one
\* is awaited
NextOverlap == MoodClick \/ TimerFires(MaxFetches + 1) \/ MoodAnswer

SpecOverlap == Init /\ [][NextOverlap]_vars

\* the awaited searchByEmotion call for emotion m returns or throws in this step
FetchEnded(m) ==
    /\ BagCardinality(fetches') < BagCardinality(fetches)
    /\ \E f \in BagToSet(fetches) :
           f.emotion = m /\ CopiesIn(f, fetches') < CopiesIn(f, fetches)

\* a searchByEmotion call starts in this step
FetchStarted == BagCardinality(fetches') > BagCardinality(fetches)

\* C11: when the fetch for an emotion resolves after another emotion was
\* selected, its result is not displayed.
C11_StaleResultNotDisplayed ==
    [][\A m \in SessionMoods :
          (FetchEnded(m) /\ currentEmotion # Some(m)) => displayed' = displayed]_vars

\* the lists the page holds: displayed, current, cached, returned
PageLists ==
    {displayed, currentPlaylist}
    \cup {playlistCache[m] : m \in DOMAIN playlistCache}
    \cup {fetched[m] : m \in DOMAIN fetched}
    \cup {f.allTracks : f \in BagToSet(fetches)}

\* C13: a raw record without cover art is in no list searchByEmotion
\* returns and in no cached or displayed playlist, whichever query returned it.
C13_NoArtlessTrack ==
        \A list \in PageLists : \A i \in 1..Len(list) : HasArt(list[i])

\* an art-less record was returned and dropped, and a playlist that a search
\* returned is cached and displayed
C13_Witness ==
    /\ discarded # {}
    /\ displayed # <<>>
    /\ \E m \in DOMAIN playlistCache :
           playlistCache[m] = displayed /\ fetched[m] = displayed

\* C17: within a burst of clicks, each made while the debounce timer of the
\* previous one is pending, no search starts; the one call that starts when the
\* timer fires is for the emotion selected last.
C17_BurstGivesOneFetchForLast ==
    [][/\ (timeout # None /\ timeout' # None) => ~FetchStarted
       /\ FetchStarted =>
            (/\ timeout # None /\ timeout = currentEmotion /\ timeout' = None
             /\ BagCardinality(fetches') = BagCardinality(fetches) + 1
             /\ \E f \in BagToSet(fetches') :
                    /\ f.emotion = Val(currentEmotion)
                    /\ CopiesIn(f, fetches') = CopiesIn(f, fetches) + 1)]_vars

\* a burst of two different emotions has ended in one call, for the second
C17_Witness ==
    /\ superseded # None /\ timeout = None
    /\ superseded # currentEmotion
    /\ lastRequest = [emotion |-> Val(currentEmotion), kind |-> "miss"]
    /\ BagCardinality(fetches) = 1
    /\ \A f \in BagToSet(fetches) : f.emotion = Val(currentEmotion) /\ f.step = 1

\* the cache entry of emotion m is written in this step, not for the first time
WrittenAgain(m) ==
    /\ m \in DOMAIN playlistCache
    /\ FetchEnded(m)
    /\ \E f \in BagToSet(fetches) :
           /\ f.emotion = m /\ CopiesIn(f, fetches') < CopiesIn(f, fetches)
           /\ Len(currentPlaylist') > 0 /\ playlistCache'[m] = currentPlaylist'
           /\ errorMessage' = errorMessage

\* C34: no search starts for an emotion for which one is awaited or has
\* returned, and the cache entry of an emotion is never written a second time.
C34_OneFetchPerMood ==
    [][\A m \in SessionMoods :
          /\ (FetchStarted /\ timeout = Some(m))
                => ~((\E f \in BagToSet(fetches) : f.emotion = m) \/ m \in DOMAIN fetched)
          /\ ~WrittenAgain(m)]_vars

----------------------------------------------------------------------------
(* SpecPlayer: a page session with the embedded player: track clicks and   *)
(* the previous / next buttons                                              *)

\* Array.prototype.findIndex on the track ids: the 0-based index, or -1
findIndex(list, id) ==
    IF \E i \in 1..Len(list) : list[i] = id
    THEN (CHOOSE i \in 1..Len(list) :
              list[i] = id /\ \A j \in 1..(i - 1) : list[j] # id) - 1
    ELSE -1

\* playOnSpotify(track)
playOnSpotify(id) ==
    /\ currentlyPlayingTrack' = Some(id)
    /\ UNCHANGED <<now, variant, authVars, pageVars, histVars, call, fetches,
                   currentEmotion, currentPlaylist, playlistCache, timeout, loading,
                   errorMessage, displayed, fetched, lastRequest, discarded,
                   superseded, effectEmotion, animationId>>

\* the album cover or the overlay of a track of the shown playlist is clicked
TrackClick ==
    /\ page = "loaded"
    /\ \E i \in 1..Len(displayed) : playOnSpotify(displayed[i])

\* playNextSong()
playNextSong ==
    /\ page = "loaded"
    /\ currentlyPlayingTrack # None /\ Len(currentPlaylist) > 0
    /\ LET currentIndex == findIndex(currentPlaylist, Val(currentlyPlayingTrack))
           nextIndex    == IF currentIndex < Len(currentPlaylist) - 1
                           THEN currentIndex + 1 ELSE 0
       IN  playOnSpotify(currentPlaylist[nextIndex + 1])

\* playPreviousSong()
playPreviousSong ==
    /\ page = "loaded"
    /\ currentlyPlayingTrack # None /\ Len(currentPlaylist) > 0
    /\ LET currentIndex == findIndex(currentPlaylist, Val(currentlyPlayingTrack))
           prevIndex    == IF currentIndex > 0
                           THEN currentIndex - 1 ELSE Len(currentPlaylist) - 1
       IN  playOnSpotify(currentPlaylist[prevIndex + 1])

\* the catalog answers with one or two artwork-bearing records
PlayerAnswer ==
    /\ \E f \in BagToSet(fetches),
          items \in {q \in SeqsUpTo(1..AppNumTracks, 2) : Len(q) > 0} :
            AppAnswer(f, [kind |-> "ok", items |-> items])
    /\ UNCHANGED discarded

NextPlayer ==
    \/ MoodClick
    \/ DebounceFire
    \/ PlayerAnswer
    \/ TrackClick
    \/ playNextSong
    \/ playPreviousSong

SpecPlayer == Init /\ [][NextPlayer]_vars

\* C38: whenever a track is playing it is an element of currentPlaylist.
C38_PlayingTrackInPlaylist ==
        currentlyPlayingTrack # None =>
            \E i \in 1..Len(currentPlaylist) : currentPlaylist[i] = Val(currentlyPlayingTrack)

\* C37: while the loading indicator is hidden no searchByEmotion call is
\* awaited.
C37_HiddenMeansNoFetch ==
        ~loading => fetches = EmptyBag

----------------------------------------------------------------------------
(* SpecEffects: the emotion cards and the background effects, on the page  *)
(* of a visitor who is not connected                                       *)

\* the eight emotion categories the page offers
UiEmotions == {AllEmotions[i] : i \in DOMAIN AllEmotions}

InitEffects ==
    /\ InitSearch
    /\ variant = "language"
    /\ localStorage = EmptyLocal

EffectsClick ==
    /\ \E e \in UiEmotions : SelectEmotion(e)
    /\ UNCHANGED superseded

\* the browser runs the requested frame: animate() draws and requests the next
AnimationFrame ==
    /\ page = "loaded"
    /\ animationId # None
    /\ Val(animationId) <= MaxFrames
    /\ animationId' = animate(Effects).animationId
    /\ UNCHANGED <<now, variant, authVars, pageVars, histVars, call, fetches,
                   currentEmotion, currentPlaylist, playlistCache, timeout, loading,
                   errorMessage, displayed, fetched, lastRequest, discarded,
                   superseded, effectEmotion, currentlyPlayingTrack>>

NextEffects == EffectsClick \/ AnimationFrame \/ DebounceFire

SpecEffects == InitEffects /\ [][NextEffects]_vars

\* C15: once one of the eight emotions the page offers is selected, an
\* animation frame of its background effect is pending.
C15_EveryEmotionAnimates ==
        (currentEmotion # None /\ Val(currentEmotion) \in UiEmotions)
            => (effectEmotion = currentEmotion /\ animationId # None)

----------------------------------------------------------------------------
(* SpecDisconnect: the page session of Spec with the auth button            *)

\* ClickDisconnect: logout() and updateAuthStatus(false) leave the playlist,
\* the cache and the awaited searches as they are
NextDisconnect ==
    \/ CardClick
    \/ DebounceFire
    \/ SearchAnswer
    \/ ClickDisconnect

SpecDisconnect == Init /\ [][NextDisconnect]_vars

\* C33: a playlist is displayed or written to the cache only in a step that
\* leaves the client authenticated: a search that was awaited when the
\* credential was cleared does not show or cache its tracks.
C33_ShownOnlyWhileAuthenticated ==
    [][((displayed' # displayed /\ displayed' # <<>>) \/ playlistCache' # playlistCache)
          => Authenticated']_vars

----------------------------------------------------------------------------
(* Properties of the page session, checked under Spec *)

\* the step in which the debounce timer fires and handleEmotionSelection
\* passes its authentication check
RequestStep == timeout # None /\ timeout' = None /\ isAuthenticated(Auth, now).ret

\* C3: as the claim states it: a request for a mood whose earlier search has
\* completed, with whatever list, starts no catalog call and shows that list.
C3_RepeatIsFree ==
    [][(RequestStep /\ Val(timeout) \in DOMAIN fetched)
          => (fetches' = fetches /\ displayed' = fetched[Val(timeout)])]_vars

\* C3, amended: a request for a mood whose latest completed search returned a
\* non-empty list starts no catalog call and shows exactly that list (an empty
\* list is not cached, and the mood is searched again).
C3_RepeatIsFreeWhenNonEmpty ==
    [][(/\ RequestStep
        /\ Val(timeout) \in DOMAIN fetched
        /\ fetched[Val(timeout)] # <<>>)
          => (/\ fetches' = fetches
              /\ displayed' = fetched[Val(timeout)]
              /\ currentPlaylist' = fetched[Val(timeout)])]_vars

\* the second request for a mood has just been served from the cache
C3_Witness ==
    /\ lastRequest.kind = "hit"
    /\ lastRequest.emotion \in DOMAIN fetched
    /\ timeout = None /\ fetches = EmptyBag
    /\ displayed # <<>> /\ displayed = fetched[lastRequest.emotion]

====
